---- MODULE Spec2Model ----
(***************************************************************************)
(* CloudNote: offline-tolerant synchronisation between the browser draft   *)
(* store (StorageService.ts, Editor.tsx) and the server file store         *)
(* (backend/src/routes/files.ts), and the asset garbage collector          *)
(* (backend/src/gc.ts).                                                    *)
(*                                                                         *)
(* Seven specifications share this module:                                 *)
(*   Spec     - the editor, the draft store, syncFile pushes, the server   *)
(*              PUT/PATCH handlers and the writes of other clients;        *)
(*   LiveSpec - the same for a single client, with the timers, the server  *)
(*              and the network weakly fair;                               *)
(*   SpecStore - the app started over the draft store earlier sessions     *)
(*              left: the sweep of syncAll on reconnection and the delete, *)
(*              rename and drag-move of the sidebar;                       *)
(*   SpecTrash - the same app when the sidebar only deletes;               *)
(*   SpecGC   - the mark / sweep / reap pass of the collector;             *)
(*   SpecGCRace - the runs of the collector step by step, among the        *)
(*              requests of the file API and one another;                  *)
(*   SpecFS   - the file API behind authMiddleware: path validation and    *)
(*              the read, create, update, patch, delete, rename and move   *)
(*              handlers on a disk with directories and a recovery area.   *)
(***************************************************************************)
EXTENDS Integers, Sequences, FiniteSets, TLC

\* ------------------------------------------------------------------ bounds
MaxLen == 2           \* longest document text, in characters
MaxEvents == 4        \* user and environment events in one behaviour: documents
                      \* opened, edits, force-saves, connectivity changes, writes
                      \* by other clients
MaxInFlight == 2      \* syncFile calls of this client with a request outstanding
MaxGCEvents == 3      \* collector passes, soft-deletes and clock advances in one behaviour
MaxFSEvents == 2      \* requests to the file API and clock ticks in one behaviour
MaxRuns == 2          \* runs of the collector in flight at the same time

Alphabet == {"a", "b"}
Paths == {"p1", "p2"}

\* absent values (null / undefined), one per kind of value
NoPath == "none"
NoText == <<"none">>
NoSum == 0
Absent == [absent |-> TRUE]

\* ---------------------------------------------------------------- texts
RECURSIVE SeqsUpTo(_)
SeqsUpTo(n) ==
    IF n = 0 THEN {<<>>}
    ELSE LET S == SeqsUpTo(n - 1)
         IN  S \cup {Append(s, c) : s \in {x \in S : Len(x) = n - 1}, c \in Alphabet}

Texts == SeqsUpTo(MaxLen)

\* ------------------------------------------------------- fingerprint (MD5)
\* md5 is modelled as a collision-free digest: the bijective base-3 numeral of
\* the text plus one, so that no digest is the falsy empty string.
CharCode(c) == IF c = "a" THEN 1 ELSE 2

RECURSIVE Digest(_)
Digest(t) == IF t = <<>> THEN 0 ELSE CharCode(Head(t)) + 3 * Digest(Tail(t))

md5(text) == 1 + Digest(text)

\* ------------------------------------------------------------ patch codec
\* diff-match-patch as the two programs use it.  Texts are shorter than the
\* library's context margin, so a hunk carries the whole common prefix and
\* suffix as context.
RECURSIVE CommonPrefix(_, _)
CommonPrefix(a, b) ==
    IF a = <<>> \/ b = <<>> \/ Head(a) # Head(b) THEN 0
    ELSE 1 + CommonPrefix(Tail(a), Tail(b))

RECURSIVE Reverse(_)
Reverse(s) == IF s = <<>> THEN <<>> ELSE Append(Reverse(Tail(s)), Head(s))

\* dmp.patch_make(text1, text2): no hunk when the texts are equal, otherwise
\* one hunk start / context / deletion / insertion / context.
patch_make(text1, text2) ==
    IF text1 = text2 THEN <<>>
    ELSE LET cp == CommonPrefix(text1, text2)
             r1 == SubSeq(text1, cp + 1, Len(text1))
             r2 == SubSeq(text2, cp + 1, Len(text2))
             cs == CommonPrefix(Reverse(r1), Reverse(r2))
         IN  << [start  |-> 0,
                 before |-> SubSeq(text1, 1, cp),
                 del    |-> SubSeq(r1, 1, Len(r1) - cs),
                 ins    |-> SubSeq(r2, 1, Len(r2) - cs),
                 after  |-> SubSeq(r1, Len(r1) - cs + 1, Len(r1))] >>

\* dmp.patch_toText: for each hunk a header line followed by the non-empty
\* diff lines.
DiffLine(op, s) == IF s = <<>> THEN <<>> ELSE << <<op, s>> >>

HunkLines(h) ==
    << <<"@@", h.start>> >> \o DiffLine(" ", h.before) \o DiffLine("-", h.del)
        \o DiffLine("+", h.ins) \o DiffLine(" ", h.after)

RECURSIVE patch_toText(_)
patch_toText(patches) ==
    IF patches = <<>> THEN <<>>
    ELSE HunkLines(Head(patches)) \o patch_toText(Tail(patches))

\* dmp.patch_fromText: parse the lines back into hunks, a new hunk at each
\* header line.
RECURSIVE JoinOp(_, _, _, _)
JoinOp(lines, op, from, to) ==
    IF from > to THEN <<>>
    ELSE (IF lines[from][1] = op THEN lines[from][2] ELSE <<>>)
         \o JoinOp(lines, op, from + 1, to)

HunkOf(textline) ==
    LET n       == Len(textline)
        changes == {i \in 2..n : textline[i][1] \in {"-", "+"}}
        first   == IF changes = {} THEN n + 1
                   ELSE CHOOSE i \in changes : \A j \in changes : i <= j
        last    == IF changes = {} THEN n
                   ELSE CHOOSE i \in changes : \A j \in changes : j <= i
    IN  [start  |-> textline[1][2],
         before |-> JoinOp(textline, " ", 2, first - 1),
         del    |-> JoinOp(textline, "-", 2, n),
         ins    |-> JoinOp(textline, "+", 2, n),
         after  |-> JoinOp(textline, " ", last + 1, n)]

RECURSIVE patch_fromText(_)
patch_fromText(textline) ==
    IF textline = <<>> THEN <<>>
    ELSE LET n       == Len(textline)
             headers == {i \in 2..n : textline[i][1] = "@@"}
             end     == IF headers = {} THEN n
                        ELSE (CHOOSE i \in headers : \A j \in headers : i <= j) - 1
         IN  <<HunkOf(SubSeq(textline, 1, end))>>
                \o patch_fromText(SubSeq(textline, end + 1, n))

\* dmp.match_main restricted to exact occurrences: the occurrence of pattern
\* in text nearest to loc (0-based), or -1.
Occurrences(text, pattern) ==
    {i \in 0..(Len(text) - Len(pattern)) :
        SubSeq(text, i + 1, i + Len(pattern)) = pattern}

Dist(i, j) == IF i < j THEN j - i ELSE i - j

match_main(text, pattern, loc) ==
    LET occ == Occurrences(text, pattern)
    IN  IF occ = {} THEN -1
        ELSE CHOOSE i \in occ :
                \A j \in occ : Dist(i, loc) < Dist(j, loc)
                               \/ (Dist(i, loc) = Dist(j, loc) /\ i <= j)

\* dmp.patch_apply(patches, text) -> [newText, results]: the hunks are applied
\* in turn to the text the earlier ones have left; a hunk whose text is not
\* found leaves the text alone and gets the result false.
RECURSIVE patch_apply(_, _)
patch_apply(patches, text) ==
    IF patches = <<>> THEN [newText |-> text, results |-> <<>>]
    ELSE LET h     == Head(patches)
             text1 == h.before \o h.del \o h.after
             text2 == h.before \o h.ins \o h.after
             loc   == match_main(text, text1, h.start)
             found == loc # -1
             now   == IF found
                      THEN SubSeq(text, 1, loc) \o text2
                              \o SubSeq(text, loc + Len(text1) + 1, Len(text))
                      ELSE text
             rest  == patch_apply(Tail(patches), now)
         IN  [newText |-> rest.newText, results |-> <<found>> \o rest.results]

\* ----------------------------------------------------- server file store
\* JavaScript truthiness of an optional string / an optional digest
Truthy(x) == x # NoText /\ x # <<>>

TruthySum(x) == x # NoSum

OrEmpty(content) == IF Truthy(content) THEN content ELSE <<>>

Response(status, checksum, currentContent) ==
    [status |-> status, checksum |-> checksum, currentContent |-> currentContent]

NetworkError == Response(0, NoSum, NoText)

\* router.put('/'): writes unconditionally; answers the digest of what it wrote.
router_put(content) ==
    [write |-> OrEmpty(content),
     resp  |-> Response(200, md5(OrEmpty(content)), NoText)]

\* a variant of router.patch('/') that applies the patch whatever the checksum
router_patch_NoChecksumTest(current, patch, checksum) ==
    IF current = NoText
    THEN [write |-> NoText, resp |-> Response(404, NoSum, NoText)]
    ELSE
    LET applied == patch_apply(patch_fromText(patch), current)
    IN  IF \A i \in 1..Len(applied.results) : applied.results[i]
        THEN [write |-> applied.newText, resp |-> Absent]
        ELSE [write |-> NoText, resp |-> Response(422, NoSum, current)]

\* a variant of router.patch('/') that writes whatever patch_apply returns
router_patch_WritePartial(current, patch, checksum) ==
    IF ~TruthySum(checksum)
    THEN [write |-> NoText, resp |-> Response(400, NoSum, NoText)]
    ELSE IF current = NoText
    THEN [write |-> NoText, resp |-> Response(404, NoSum, NoText)]
    ELSE IF md5(current) # checksum
    THEN [write |-> NoText, resp |-> Response(409, NoSum, current)]
    ELSE [write |-> patch_apply(patch_fromText(patch), current).newText, resp |-> Absent]

\* router.patch('/') up to the point where it either answers or is about to
\* write: validation, existence, checksum comparison, patch application.
router_patch(current, patch, checksum) ==
    IF ~TruthySum(checksum)
    THEN [write |-> NoText, resp |-> Response(400, NoSum, NoText)]
    ELSE IF current = NoText
    THEN [write |-> NoText, resp |-> Response(404, NoSum, NoText)]
    ELSE IF md5(current) # checksum
    THEN [write |-> NoText, resp |-> Response(409, NoSum, current)]
    ELSE LET applied == patch_apply(patch_fromText(patch), current)
         IN  IF \A i \in 1..Len(applied.results) : applied.results[i]
             THEN [write |-> applied.newText, resp |-> Absent]
             ELSE [write |-> NoText, resp |-> Response(422, NoSum, current)]

\* the rest of router.patch('/'): the write and the success answer.
router_patch_written(newText) == Response(200, md5(newText), NoText)

\* ------------------------------------------------------------ draft store
NewDraft(content, dirty, shadowContent, shadowChecksum) ==
    [content |-> content, dirty |-> dirty,
     shadowContent |-> shadowContent, shadowChecksum |-> shadowChecksum]

\* a variant of saveDraft that does not carry the shadow pair over
saveDraft_DropShadow(existing, content) == NewDraft(content, TRUE, NoText, NoSum)

\* StorageService.saveDraft
saveDraft(existing, content) ==
    NewDraft(content, TRUE,
             IF existing = Absent THEN NoText ELSE existing.shadowContent,
             IF existing = Absent THEN NoSum ELSE existing.shadowChecksum)

\* a variant of initShadow that stores the shadow pair but not the content
initShadow_ShadowOnly(content, checksum) ==
    NewDraft(<<>>, FALSE, content, checksum)

\* StorageService.initShadow
initShadow(content, checksum) == NewDraft(content, FALSE, content, checksum)

\* a variant of markClean that replaces the shadow text but not its checksum
markClean_KeepChecksum(draft, newChecksum, newContent) ==
    IF draft = Absent THEN Absent
    ELSE [draft EXCEPT !.dirty = FALSE, !.shadowContent = newContent]

\* a variant of markClean that leaves the shadow pair as it was
markClean_KeepShadow(draft, newChecksum, newContent) ==
    IF draft = Absent THEN Absent
    ELSE [draft EXCEPT !.dirty = FALSE]

\* StorageService.markClean: the entry as found now, with dirty cleared and the
\* shadow pair replaced; nothing when the entry is gone.
markClean(draft, newChecksum, newContent) ==
    IF draft = Absent THEN Absent
    ELSE [draft EXCEPT !.dirty = FALSE,
                       !.shadowContent = newContent,
                       !.shadowChecksum = newChecksum]

\* a variant of moveDraft that leaves the entry under oldPath in place
moveDraft_Copy(store, oldPath, newPath) ==
    IF store[oldPath] = Absent THEN store
    ELSE [store EXCEPT ![newPath] = store[oldPath]]

\* StorageService.moveDraft on the whole store: the entry of oldPath, if there
\* is one, is written under newPath and removed from oldPath
moveDraft(store, oldPath, newPath) ==
    IF store[oldPath] = Absent THEN store
    ELSE [store EXCEPT ![newPath] = store[oldPath], ![oldPath] = Absent]

\* router.post('/move') on the stored files: 400 when the destination exists,
\* 500 when fs.move finds no source, otherwise the file changes place
router_move(store, oldPath, newPath) ==
    IF store[newPath] # NoText THEN [files |-> store, status |-> 400]
    ELSE IF store[oldPath] = NoText THEN [files |-> store, status |-> 500]
    ELSE [files  |-> [store EXCEPT ![newPath] = store[oldPath], ![oldPath] = NoText],
          status |-> 200]

\* a variant of syncFile that sends the content of any Draft it finds
syncFile_AlwaysPush(draft) ==
    IF draft = Absent
    THEN [kind |-> "noop", patch |-> NoText, checksum |-> NoSum, content |-> NoText]
    ELSE [kind |-> "put", patch |-> NoText, checksum |-> NoSum, content |-> draft.content]

\* StorageService.syncFile, from its entry to the first request it issues.
syncFile(draft) ==
    IF draft = Absent \/ ~draft.dirty
    THEN [kind |-> "noop", patch |-> NoText, checksum |-> NoSum, content |-> NoText]
    ELSE IF Truthy(draft.shadowContent) /\ TruthySum(draft.shadowChecksum)
    THEN [kind     |-> "patch",
          patch    |-> patch_toText(patch_make(draft.shadowContent, draft.content)),
          checksum |-> draft.shadowChecksum,
          content  |-> NoText]
    ELSE [kind |-> "put", patch |-> NoText, checksum |-> NoSum, content |-> draft.content]

\* ================================================================ state
VARIABLES
    files,          \* server: path -> stored text, NoText when the file is absent
    drafts,         \* client draft store (localforage): path -> Draft, or Absent
    editorDoc,      \* text the editor currently holds (editor.document as markdown)
    filePath,       \* Editor prop filePath: the open document, or NoPath
    loading,        \* Editor state loading
    saveStatus,     \* Editor state saveStatus
    saveDraftTimer, \* saveDraftTimerRef: path the pending 500ms timer will save
    syncTimer,      \* syncTimerRef: path the pending 2000ms timer will push
    loadTimers,     \* paths with a pending setTimeout(triggerSync, 1000) armed by a load
    loads,          \* loadContent calls in flight: [path, localDraft]
    syncs,          \* slot -> a syncFile call that has not returned yet
    syncAllQ,       \* keys syncAll still has to visit, NoText when it is not running
    online,         \* whether requests of this client reach the server
    budget,         \* user and environment events so far
    lastEdit,       \* path -> the text the user's latest edit of it produced (history)
    lastLoad,       \* what the latest loadContent decided on, Absent after a new open (history)
    saving,         \* the 500ms timer callback between its start and its saveDraft: [path, content]
    gcDocs, gcAssets, gcTrash, gcNow, gcRun, gcBudget,  \* collector state, see SpecGC
    gcRuns,         \* the runs of the collector in flight, see SpecGCRace
    fsFiles, fsDirs, fsTrash, fsNow, fsPassword, fsReq, fsLast, fsBudget   \* file API, see SpecFS

syncVars == <<files, drafts, editorDoc, filePath, loading, saveStatus, saveDraftTimer,
              syncTimer, loadTimers, loads, syncs, syncAllQ, online, budget, lastEdit,
              saving, lastLoad>>
gcVars == <<gcDocs, gcAssets, gcTrash, gcNow, gcRun, gcBudget, gcRuns>>
fsVars == <<fsFiles, fsDirs, fsTrash, fsNow, fsPassword, fsReq, fsLast, fsBudget>>
vars == <<syncVars, gcVars, fsVars>>

PathOrder == <<"p1", "p2">>
Slots == 1..MaxInFlight

\* pc of a syncFile call: patchReq / putReq (request on its way), patchSrv
\* (router.patch between its check and its write), patchResp / putResp (answer
\* on its way), done (markClean or the catch block has run, about to return).
\* content is draft.content as read at the start of the call, failure the
\* status of the failed PATCH once the catch block has taken over.
Idle == [pc |-> "idle", path |-> NoPath, caller |-> "none", content |-> NoText,
         patch |-> NoText, checksum |-> NoSum, staged |-> NoText, resp |-> Absent,
         fallback |-> FALSE, failure |-> NoSum, result |-> "none"]

\* the calls in flight occupy the first slots, in the order they started
FreeSlots == {s \in Slots : syncs[s].pc = "idle"}
FreeSlot == CHOOSE s \in FreeSlots : \A t \in FreeSlots : s <= t

\* the call of syncFile(path) by caller once it has read a dirty draft: a slot
\* holding the draft as read and the first request (PATCH or PUT).
Call(begin, path, caller, draft) ==
    [Idle EXCEPT !.pc = IF begin.kind = "patch" THEN "patchReq" ELSE "putReq",
                 !.path = path, !.caller = caller, !.content = draft.content,
                 !.patch = begin.patch, !.checksum = begin.checksum]

\* the slots once the call in slot s has returned
Compact(s) ==
    [i \in Slots |-> IF i < s THEN syncs[i]
                     ELSE IF i < MaxInFlight THEN syncs[i + 1]
                     ELSE Idle]

Spend == budget' = budget + 1

RECURSIVE KeysFrom(_)
KeysFrom(i) ==
    IF i > Len(PathOrder) THEN <<>>
    ELSE (IF drafts[PathOrder[i]] # Absent THEN <<PathOrder[i]>> ELSE <<>>) \o KeysFrom(i + 1)

SyncInit ==
    /\ files = [p \in Paths |-> <<"a">>]
    /\ drafts = [p \in Paths |-> Absent]
    /\ editorDoc = <<>>
    /\ filePath = NoPath
    /\ loading = FALSE
    /\ saveStatus = "saved"
    /\ saveDraftTimer = NoPath
    /\ syncTimer = NoPath
    /\ loadTimers = {}
    /\ loads = {}
    /\ syncs = [s \in Slots |-> Idle]
    /\ syncAllQ = NoText
    /\ online = TRUE
    /\ budget = 0
    /\ lastEdit = [p \in Paths |-> NoText]
    /\ saving = Absent
    /\ lastLoad = Absent

GCIdleInit ==
    /\ gcDocs = <<>>
    /\ gcAssets = {}
    /\ gcTrash = {}
    /\ gcNow = 0
    /\ gcRun = Absent
    /\ gcBudget = 0
    /\ gcRuns = [r \in 1..MaxRuns |-> Absent]

FSIdleInit ==
    /\ fsFiles = <<>>
    /\ fsDirs = {}
    /\ fsTrash = {}
    /\ fsNow = 0
    /\ fsPassword = FALSE
    /\ fsReq = Absent
    /\ fsLast = Absent
    /\ fsBudget = 0

Init == SyncInit /\ GCIdleInit /\ FSIdleInit

\* ------------------------------------------------------------- the editor
\* App.handleFileSelect -> Editor effects on a new filePath: the cleanup clears
\* both timers, the editor is emptied, loadContent starts with both fetches.
\* The documents are interchangeable: the one opened first is called p1.
OpenFile(p) ==
    /\ p # filePath
    /\ filePath = NoPath => p = PathOrder[1]
    /\ budget < MaxEvents
    /\ Spend
    /\ filePath' = p
    /\ saveDraftTimer' = NoPath
    /\ syncTimer' = NoPath
    /\ editorDoc' = <<>>
    /\ saveStatus' = "saved"
    /\ loading' = TRUE
    /\ loads' = loads \cup {[path |-> p, localDraft |-> drafts[p]]}
    /\ lastLoad' = Absent
    /\ UNCHANGED <<lastEdit, saving, files, drafts, loadTimers, syncs, syncAllQ, online>>

\* a variant of the decision logic that ignores the dirty flag
LoadDecision_ServerWins(serverData, localDraft) ==
    IF serverData = Absent /\ localDraft = Absent THEN "notfound"
    ELSE IF serverData = Absent THEN "local"
    ELSE IF localDraft = Absent THEN "server"
    ELSE "clean"

\* a variant of the decision logic that gives up when the server has no answer
LoadDecision_ServerRequired(serverData, localDraft) ==
    IF serverData = Absent THEN "notfound"
    ELSE IF localDraft = Absent THEN "server"
    ELSE IF localDraft.dirty THEN "dirty"
    ELSE "clean"

\* loadContent once both fetches have settled: the decision logic.
LoadDecision(serverData, localDraft) ==
    IF serverData = Absent /\ localDraft = Absent THEN "notfound"
    ELSE IF serverData = Absent THEN "local"
    ELSE IF localDraft = Absent THEN "server"
    ELSE IF localDraft.dirty THEN "dirty"
    ELSE "clean"

\* router.get('/content') as seen by the client: null when the request fails
getFileContent(p) ==
    IF online /\ files[p] # NoText
    THEN [content |-> files[p], checksum |-> md5(files[p])]
    ELSE Absent

LoadContent(l) ==
    /\ l \in loads
    /\ LET serverData == getFileContent(l.path)
           decision == LoadDecision(serverData, l.localDraft)
       IN  /\ editorDoc' = CASE decision = "notfound" -> editorDoc
                             [] decision \in {"local", "dirty"} -> l.localDraft.content
                             [] OTHER -> serverData.content
           /\ drafts' = IF decision \in {"server", "clean"}
                        THEN [drafts EXCEPT ![l.path] =
                                 initShadow(serverData.content, serverData.checksum)]
                        ELSE drafts
           /\ loadTimers' = IF decision = "dirty" THEN loadTimers \cup {l.path}
                            ELSE loadTimers
    /\ loads' = loads \ {l}
    /\ loading' = FALSE
    /\ lastLoad' = [path |-> l.path, localDraft |-> l.localDraft,
                    serverData |-> getFileContent(l.path)]
    /\ UNCHANGED <<lastEdit, saving, files, filePath, saveStatus, saveDraftTimer, syncTimer, syncs,
                   syncAllQ, online, budget>>

\* what one keystroke can turn a text into: this user types the first letter,
\* the users of other clients the others
Edits(t, keys) ==
    {Append(t, c) : c \in {x \in keys : Len(t) < MaxLen}}
        \cup {SubSeq(t, 1, Len(t) - 1) : x \in {y \in {1} : t # <<>>}}

\* a variant of handleContentChange that ignores changes made while the
\* connection is down
UserEdit_OnlineOnly(t) ==
    /\ online
    /\ filePath # NoPath
    /\ ~loading
    /\ budget < MaxEvents
    /\ t \in Edits(editorDoc, {"a"})
    /\ Spend
    /\ editorDoc' = t
    /\ syncTimer' = NoPath
    /\ saveDraftTimer' = filePath
    /\ saveStatus' = IF saveStatus \notin {"dirty", "saving"} THEN "dirty" ELSE saveStatus
    /\ lastEdit' = [lastEdit EXCEPT ![filePath] = t]
    /\ UNCHANGED <<lastLoad, saving, files, drafts, filePath, loading, loadTimers, loads, syncs, syncAllQ,
                   online>>

\* the user changes the document: handleContentChange
UserEdit(t) ==
    /\ filePath # NoPath
    /\ ~loading
    /\ budget < MaxEvents
    /\ t \in Edits(editorDoc, {"a"})
    /\ Spend
    /\ editorDoc' = t
    /\ syncTimer' = NoPath
    /\ saveDraftTimer' = filePath
    /\ saveStatus' = IF saveStatus \notin {"dirty", "saving"} THEN "dirty" ELSE saveStatus
    /\ lastEdit' = [lastEdit EXCEPT ![filePath] = t]
    /\ UNCHANGED <<lastLoad, saving, files, drafts, filePath, loading, loadTimers, loads, syncs, syncAllQ,
                   online>>

\* the 500ms timer fires: the callback takes the editor's document and awaits
\* its conversion to markdown
SaveDraftTimerFire ==
    /\ saveDraftTimer # NoPath
    /\ saving = Absent
    /\ saving' = [path |-> saveDraftTimer, content |-> editorDoc]
    /\ saveDraftTimer' = NoPath
    /\ UNCHANGED <<lastLoad, lastEdit, files, drafts, editorDoc, filePath, loading, saveStatus, syncTimer,
                   loadTimers, loads, syncs, syncAllQ, online, budget>>

\* the rest of the callback: saveDraft, then arm the 2000ms timer
SaveDraftDone ==
    /\ saving # Absent
    /\ drafts' = [drafts EXCEPT ![saving.path] = saveDraft(@, saving.content)]
    /\ syncTimer' = saving.path
    /\ saving' = Absent
    /\ UNCHANGED <<lastLoad, lastEdit, files, editorDoc, filePath, loading, saveStatus, saveDraftTimer,
                   loadTimers, loads, syncs, syncAllQ, online, budget>>

\* triggerSync(path) up to the await of syncFile: setSaveStatus('saving'), then
\* syncFile reads the draft and either returns at once or issues a request.
TriggerSync(path, caller) ==
    LET begin == syncFile(drafts[path])
    IN  /\ FreeSlots # {}
        /\ saveStatus' = "saving"
        /\ syncs' = [syncs EXCEPT ![FreeSlot] =
                       IF begin.kind = "noop"
                       THEN [Idle EXCEPT !.pc = "done", !.path = path, !.caller = caller,
                                         !.result = "noop"]
                       ELSE Call(begin, path, caller, drafts[path])]

SyncTimerFire ==
    /\ syncTimer # NoPath
    /\ TriggerSync(syncTimer, "timer")
    /\ syncTimer' = NoPath
    /\ UNCHANGED <<lastLoad, lastEdit, saving, files, drafts, editorDoc, filePath, loading, saveDraftTimer, loadTimers,
                   loads, syncAllQ, online, budget>>

LoadTimerFire(p) ==
    /\ p \in loadTimers
    /\ TriggerSync(p, "load")
    /\ loadTimers' = loadTimers \ {p}
    /\ UNCHANGED <<lastLoad, lastEdit, saving, files, drafts, editorDoc, filePath, loading, saveDraftTimer, syncTimer,
                   loads, syncAllQ, online, budget>>

\* forceSave (Ctrl+S): clear both timers, then forceSync = saveDraft + syncFile
ForceSave ==
    /\ filePath # NoPath
    /\ budget < MaxEvents
    /\ FreeSlots # {}
    /\ Spend
    /\ saveDraftTimer' = NoPath
    /\ syncTimer' = NoPath
    /\ LET d == saveDraft(drafts[filePath], editorDoc)
       IN  /\ drafts' = [drafts EXCEPT ![filePath] = d]
           /\ syncs' = [syncs EXCEPT ![FreeSlot] = Call(syncFile(d), filePath, "force", d)]
    /\ UNCHANGED <<lastLoad, lastEdit, saving, files, editorDoc, filePath, loading, saveStatus, loadTimers, loads,
                   syncAllQ, online>>

\* Sidebar.onDrop for a document that is not the open one: App.handleMoveFile
\* moves its draft first, then the server is asked to move the file
MoveFile(p, q) ==
    /\ p # q
    /\ p # filePath
    /\ budget < MaxEvents
    /\ Spend
    /\ drafts' = moveDraft(drafts, p, q)
    /\ files' = IF online THEN router_move(files, p, q).files ELSE files
    /\ UNCHANGED <<lastLoad, lastEdit, saving, editorDoc, filePath, loading, saveStatus, saveDraftTimer,
                   syncTimer, loadTimers, loads, syncs, syncAllQ, online>>

\* ------------------------------------------------------ requests in flight
\* the server runs router.patch up to its answer or to the point of writing
ServerPatchCheck(s) ==
    /\ syncs[s].pc = "patchReq"
    /\ online
    /\ LET r == router_patch(files[syncs[s].path], syncs[s].patch, syncs[s].checksum)
       IN  syncs' = [syncs EXCEPT ![s] =
                       IF r.resp = Absent
                       THEN [@ EXCEPT !.pc = "patchSrv", !.staged = r.write]
                       ELSE [@ EXCEPT !.pc = "patchResp", !.resp = r.resp]]
    /\ UNCHANGED <<lastLoad, lastEdit, saving, files, drafts, editorDoc, filePath, loading, saveStatus, saveDraftTimer,
                   syncTimer, loadTimers, loads, syncAllQ, online, budget>>

\* router.patch writes the patched text and answers
ServerPatchWrite(s) ==
    /\ syncs[s].pc = "patchSrv"
    /\ files' = [files EXCEPT ![syncs[s].path] = syncs[s].staged]
    /\ syncs' = [syncs EXCEPT ![s] =
                    [@ EXCEPT !.pc = "patchResp",
                              !.resp = router_patch_written(syncs[s].staged)]]
    /\ UNCHANGED <<lastLoad, lastEdit, saving, drafts, editorDoc, filePath, loading, saveStatus, saveDraftTimer,
                   syncTimer, loadTimers, loads, syncAllQ, online, budget>>

\* router.put
ServerPut(s) ==
    /\ syncs[s].pc = "putReq"
    /\ online
    /\ LET r == router_put(syncs[s].content)
       IN  /\ files' = [files EXCEPT ![syncs[s].path] = r.write]
           /\ syncs' = [syncs EXCEPT ![s] = [@ EXCEPT !.pc = "putResp", !.resp = r.resp]]
    /\ UNCHANGED <<lastLoad, lastEdit, saving, drafts, editorDoc, filePath, loading, saveStatus, saveDraftTimer,
                   syncTimer, loadTimers, loads, syncAllQ, online, budget>>

\* the connection is down: the request or its answer is lost, axios rejects
NetFail(s) ==
    /\ ~online
    /\ syncs[s].pc \in {"patchReq", "patchResp", "putReq", "putResp"}
    /\ syncs[s].resp # NetworkError
    /\ syncs' = [syncs EXCEPT ![s] =
                    [@ EXCEPT !.pc = IF syncs[s].pc \in {"patchReq", "patchResp"}
                                     THEN "patchResp" ELSE "putResp",
                              !.resp = NetworkError]]
    /\ UNCHANGED <<lastLoad, lastEdit, saving, files, drafts, editorDoc, filePath, loading, saveStatus, saveDraftTimer,
                   syncTimer, loadTimers, loads, syncAllQ, online, budget>>

Delivered(s) == online \/ syncs[s].resp = NetworkError

\* syncFile after patchFile: markClean on success, otherwise the catch block
\* falls back to updateFile with the content read at the start
PatchSettled(s) ==
    /\ syncs[s].pc = "patchResp"
    /\ Delivered(s)
    /\ IF syncs[s].resp.status = 200
       THEN /\ drafts' = [drafts EXCEPT ![syncs[s].path] =
                            markClean(@, syncs[s].resp.checksum, syncs[s].content)]
            /\ syncs' = [syncs EXCEPT ![s] = [@ EXCEPT !.pc = "done", !.result = "patched"]]
       ELSE /\ drafts' = drafts
            /\ syncs' = [syncs EXCEPT ![s] =
                            [@ EXCEPT !.pc = "putReq", !.fallback = TRUE,
                                      !.failure = syncs[s].resp.status]]
    /\ UNCHANGED <<lastLoad, lastEdit, saving, files, editorDoc, filePath, loading, saveStatus, saveDraftTimer,
                   syncTimer, loadTimers, loads, syncAllQ, online, budget>>

\* a variant of the end of syncFile whose catch block clears the dirty flag
PutSettled_CleanOnFailure(s) ==
    /\ syncs[s].pc = "putResp"
    /\ Delivered(s)
    /\ drafts' = [drafts EXCEPT ![syncs[s].path] =
                     markClean(@, syncs[s].checksum, syncs[s].content)]
    /\ syncs' = [syncs EXCEPT ![s] =
                    [@ EXCEPT !.pc = "done",
                              !.result = IF syncs[s].resp.status = 200 THEN "put"
                                         ELSE "failed"]]
    /\ UNCHANGED <<lastLoad, lastEdit, saving, files, editorDoc, filePath, loading, saveStatus, saveDraftTimer,
                   syncTimer, loadTimers, loads, syncAllQ, online, budget>>

\* syncFile after updateFile: markClean and success, or the outer catch
PutSettled(s) ==
    /\ syncs[s].pc = "putResp"
    /\ Delivered(s)
    /\ IF syncs[s].resp.status = 200
       THEN /\ drafts' = [drafts EXCEPT ![syncs[s].path] =
                            markClean(@, syncs[s].resp.checksum, syncs[s].content)]
            /\ syncs' = [syncs EXCEPT ![s] = [@ EXCEPT !.pc = "done", !.result = "put"]]
       ELSE /\ drafts' = drafts
            /\ syncs' = [syncs EXCEPT ![s] = [@ EXCEPT !.pc = "done", !.result = "failed"]]
    /\ UNCHANGED <<lastLoad, lastEdit, saving, files, editorDoc, filePath, loading, saveStatus, saveDraftTimer,
                   syncTimer, loadTimers, loads, syncAllQ, online, budget>>

\* a variant of the return in which a failed push of syncAll ends the loop
Return_AbortSweep(s) ==
    /\ syncs[s].pc = "done"
    /\ syncs' = Compact(s)
    /\ saveStatus' = IF syncs[s].caller \in {"timer", "load"}
                     THEN (IF syncs[s].result # "failed" THEN "saved" ELSE "offline")
                     ELSE saveStatus
    /\ syncAllQ' = IF syncs[s].caller # "online" THEN syncAllQ
                   ELSE IF syncs[s].result = "failed" THEN <<>>
                   ELSE Tail(syncAllQ)
    /\ UNCHANGED <<lastLoad, lastEdit, saving, files, drafts, editorDoc, filePath, loading, saveDraftTimer, syncTimer,
                   loadTimers, loads, online, budget>>

\* syncFile returns and its caller goes on: triggerSync sets the status,
\* syncAll moves to the next key, forceSync just returns
Return(s) ==
    /\ syncs[s].pc = "done"
    /\ syncs' = Compact(s)
    /\ saveStatus' = IF syncs[s].caller \in {"timer", "load"}
                     THEN (IF syncs[s].result # "failed" THEN "saved" ELSE "offline")
                     ELSE saveStatus
    /\ syncAllQ' = IF syncs[s].caller = "online" THEN Tail(syncAllQ) ELSE syncAllQ
    /\ UNCHANGED <<lastLoad, lastEdit, saving, files, drafts, editorDoc, filePath, loading, saveDraftTimer, syncTimer,
                   loadTimers, loads, online, budget>>

\* ---------------------------------------------------- connectivity, syncAll
GoOffline ==
    /\ online
    /\ budget < MaxEvents
    /\ Spend
    /\ online' = FALSE
    /\ saveStatus' = "offline"
    /\ UNCHANGED <<lastLoad, lastEdit, saving, files, drafts, editorDoc, filePath, loading, saveDraftTimer, syncTimer,
                   loadTimers, loads, syncs, syncAllQ>>

\* window 'online': handleOnline starts syncAll over the keys of the store
GoOnline ==
    /\ ~online
    /\ syncAllQ = NoText
    /\ budget < MaxEvents
    /\ Spend
    /\ online' = TRUE
    /\ syncAllQ' = KeysFrom(1)
    /\ UNCHANGED <<lastLoad, lastEdit, saving, files, drafts, editorDoc, filePath, loading, saveStatus, saveDraftTimer,
                   syncTimer, loadTimers, loads, syncs>>

\* one iteration of the loop of syncAll, or its end and the status refresh
SyncAllStep ==
    /\ syncAllQ # NoText
    /\ \A s \in Slots : syncs[s].caller # "online"
    /\ IF syncAllQ = <<>>
       THEN /\ syncAllQ' = NoText
            /\ saveStatus' = IF filePath # NoPath /\ drafts[filePath] # Absent
                                /\ ~drafts[filePath].dirty
                             THEN "saved" ELSE saveStatus
            /\ syncs' = syncs
       ELSE LET key == Head(syncAllQ)
            IN  IF drafts[key] # Absent /\ drafts[key].dirty
                THEN /\ FreeSlots # {}
                     /\ syncs' = [syncs EXCEPT ![FreeSlot] =
                                     Call(syncFile(drafts[key]), key, "online", drafts[key])]
                     /\ UNCHANGED <<syncAllQ, saveStatus>>
                ELSE /\ syncAllQ' = Tail(syncAllQ)
                     /\ UNCHANGED <<syncs, saveStatus>>
    /\ UNCHANGED <<lastLoad, lastEdit, saving, files, drafts, editorDoc, filePath, loading, saveDraftTimer, syncTimer,
                   loadTimers, loads, online, budget>>

\* ------------------------------------------------------------ other clients
\* another client of the same server overwrites the document (router.put)
OtherPut(p, t) ==
    /\ budget < MaxEvents
    /\ files[p] # NoText
    /\ t \in Edits(files[p], Alphabet \ {"a"})
    /\ Spend
    /\ files' = [files EXCEPT ![p] = router_put(t).write]
    /\ UNCHANGED <<lastLoad, lastEdit, saving, drafts, editorDoc, filePath, loading, saveStatus, saveDraftTimer,
                   syncTimer, loadTimers, loads, syncs, syncAllQ, online>>

\* ========================================================== specification
SyncNext ==
    \/ \E p \in Paths : OpenFile(p)
    \/ \E l \in loads : LoadContent(l)
    \/ \E t \in Texts : UserEdit(t)
    \/ SaveDraftTimerFire
    \/ SaveDraftDone
    \/ SyncTimerFire
    \/ \E p \in Paths : LoadTimerFire(p)
    \/ ForceSave
    \/ \E s \in Slots : ServerPatchCheck(s)
    \/ \E s \in Slots : ServerPatchWrite(s)
    \/ \E s \in Slots : ServerPut(s)
    \/ \E s \in Slots : NetFail(s)
    \/ \E s \in Slots : PatchSettled(s)
    \/ \E s \in Slots : PutSettled(s)
    \/ \E s \in Slots : Return(s)
    \/ GoOffline
    \/ GoOnline
    \/ SyncAllStep
    \/ \E p \in Paths, t \in Texts : OtherPut(p, t)
    \/ \E p, q \in Paths : MoveFile(p, q)

Next == SyncNext /\ UNCHANGED <<gcVars, fsVars>>

Spec == Init /\ [][Next]_vars

\* single client: every step but the writes of other clients, with the
\* timers, the server and the network all eventually doing their step
LiveNext ==
    \/ \E p \in Paths : OpenFile(p)
    \/ \E l \in loads : LoadContent(l)
    \/ \E t \in Texts : UserEdit(t)
    \/ SaveDraftTimerFire
    \/ SaveDraftDone
    \/ SyncTimerFire
    \/ \E p \in Paths : LoadTimerFire(p)
    \/ ForceSave
    \/ \E s \in Slots : ServerPatchCheck(s)
    \/ \E s \in Slots : ServerPatchWrite(s)
    \/ \E s \in Slots : ServerPut(s)
    \/ \E s \in Slots : NetFail(s)
    \/ \E s \in Slots : PatchSettled(s)
    \/ \E s \in Slots : PutSettled(s)
    \/ \E s \in Slots : Return(s)
    \/ GoOffline
    \/ GoOnline
    \/ SyncAllStep

NextLive == LiveNext /\ UNCHANGED <<gcVars, fsVars>>

Fairness ==
    /\ WF_vars(\E l \in loads : LoadContent(l))
    /\ WF_vars(SaveDraftTimerFire)
    /\ WF_vars(SaveDraftDone)
    /\ WF_vars(SyncTimerFire)
    /\ WF_vars(\E p \in Paths : LoadTimerFire(p))
    /\ WF_vars(\E s \in Slots : ServerPatchCheck(s))
    /\ WF_vars(\E s \in Slots : ServerPatchWrite(s))
    /\ WF_vars(\E s \in Slots : ServerPut(s))
    /\ WF_vars(\E s \in Slots : NetFail(s))
    /\ WF_vars(\E s \in Slots : PatchSettled(s))
    /\ WF_vars(\E s \in Slots : PutSettled(s))
    /\ WF_vars(\E s \in Slots : Return(s))
    /\ WF_vars(SyncAllStep)

LiveSpec == Init /\ [][NextLive]_vars /\ Fairness

\* ===================================== the app over a persisted draft store
\* The draft store is an IndexedDB database (localforage): it outlives the
\* page.  The app starts with the Drafts earlier sessions left, no document
\* open, connected or not.  The steps are the connectivity changes with the
\* sweep of syncAll, and the file operations of the sidebar on documents that
\* are not open: delete, rename, drag-move.

\* what saveDraft, initShadow and markClean leave in the store
StoredDrafts ==
    {Absent,
     initShadow(<<"a">>, md5(<<"a">>)),
     saveDraft(initShadow(<<"a">>, md5(<<"a">>)), <<>>),
     saveDraft(initShadow(<<"a">>, md5(<<"a">>)), <<"a", "a">>),
     saveDraft(Absent, <<"a">>)}

StoreInit ==
    /\ files \in [Paths -> {<<"a">>, <<"b">>}]
    /\ drafts \in [Paths -> StoredDrafts]
    /\ editorDoc = <<>>
    /\ filePath = NoPath
    /\ loading = FALSE
    /\ saveStatus = "saved"
    /\ saveDraftTimer = NoPath
    /\ syncTimer = NoPath
    /\ loadTimers = {}
    /\ loads = {}
    /\ syncs = [s \in Slots |-> Idle]
    /\ syncAllQ = NoText
    /\ online \in BOOLEAN
    /\ budget = 0
    /\ lastEdit = [p \in Paths |-> NoText]
    /\ saving = Absent
    /\ lastLoad = Absent
    /\ GCIdleInit
    /\ FSIdleInit

\* router.delete on the stored files: 404 when there is no such file,
\* otherwise the file leaves the store for the recovery area
router_delete(store, path) ==
    IF store[path] = NoText THEN [files |-> store, status |-> 404]
    ELSE [files |-> [store EXCEPT ![path] = NoText], status |-> 200]

\* router.post('/rename') on the stored files: 400 when the destination
\* exists, 500 when fs.rename finds no source, otherwise the file changes name
router_rename(store, oldPath, newPath) ==
    IF store[newPath] # NoText THEN [files |-> store, status |-> 400]
    ELSE IF store[oldPath] = NoText THEN [files |-> store, status |-> 500]
    ELSE [files  |-> [store EXCEPT ![newPath] = store[oldPath], ![oldPath] = NoText],
          status |-> 200]

\* Sidebar, context menu 'delete' confirmed, for a document that is not the
\* open one: deleteFile, then the tree is refreshed
DeleteFile(p) ==
    /\ p # filePath
    /\ files[p] # NoText
    /\ budget < MaxEvents
    /\ Spend
    /\ files' = IF online THEN router_delete(files, p).files ELSE files
    /\ UNCHANGED <<lastLoad, lastEdit, saving, drafts, editorDoc, filePath, loading, saveStatus,
                   saveDraftTimer, syncTimer, loadTimers, loads, syncs, syncAllQ, online>>

\* Sidebar, rename dialog confirmed, for a document that is not the open one:
\* renameFile, then the tree is refreshed
RenameFile(p, q) ==
    /\ p # q
    /\ p # filePath
    /\ files[p] # NoText
    /\ budget < MaxEvents
    /\ Spend
    /\ files' = IF online THEN router_rename(files, p, q).files ELSE files
    /\ UNCHANGED <<lastLoad, lastEdit, saving, drafts, editorDoc, filePath, loading, saveStatus,
                   saveDraftTimer, syncTimer, loadTimers, loads, syncs, syncAllQ, online>>

StoreNext ==
    \/ GoOffline
    \/ GoOnline
    \/ SyncAllStep
    \/ \E s \in Slots : ServerPatchCheck(s)
    \/ \E s \in Slots : ServerPatchWrite(s)
    \/ \E s \in Slots : ServerPut(s)
    \/ \E s \in Slots : NetFail(s)
    \/ \E s \in Slots : PatchSettled(s)
    \/ \E s \in Slots : PutSettled(s)
    \/ \E s \in Slots : Return(s)
    \/ \E p \in Paths : DeleteFile(p)
    \/ \E p, q \in Paths : RenameFile(p, q)
    \/ \E p, q \in Paths : files[p] # NoText /\ MoveFile(p, q)

NextStore == StoreNext /\ UNCHANGED <<gcVars, fsVars>>

SpecStore == StoreInit /\ [][NextStore]_vars

\* the same app when the sidebar is used for deleting only: a path without a
\* document on the server is then the path of a soft-deleted document
TrashNext ==
    \/ GoOffline
    \/ GoOnline
    \/ SyncAllStep
    \/ \E s \in Slots : ServerPatchCheck(s)
    \/ \E s \in Slots : ServerPatchWrite(s)
    \/ \E s \in Slots : ServerPut(s)
    \/ \E s \in Slots : NetFail(s)
    \/ \E s \in Slots : PatchSettled(s)
    \/ \E s \in Slots : PutSettled(s)
    \/ \E s \in Slots : Return(s)
    \/ \E p \in Paths : DeleteFile(p)

NextTrash == TrashNext /\ UNCHANGED <<gcVars, fsVars>>

SpecTrash == StoreInit /\ [][NextTrash]_vars

\* ============================================ properties of the sync protocol
\* the steps of a syncFile call, recognised in a transition
OnlySlot(s) == \A t \in Slots \ {s} : syncs'[t] = syncs[t]

Returned(s) == syncs[s].pc = "done" /\ syncs' = Compact(s)

PatchChecked(s) ==
    /\ OnlySlot(s)
    /\ syncs[s].pc = "patchReq"
    /\ syncs'[s].pc \in {"patchSrv", "patchResp"}
    /\ syncs'[s].resp # NetworkError

Called(s) == syncs[s].pc = "idle" /\ syncs'[s].pc # "idle"

\* C1: a PATCH whose checksum differs from the MD5 of the stored content is
\* answered 409 with the current content, and the stored content stays as it was.
C1_StalePatchRejected ==
    [][\A s \in Slots :
         (/\ PatchChecked(s)
          /\ files[syncs[s].path] # NoText
          /\ syncs[s].checksum # md5(files[syncs[s].path]))
         => (/\ syncs'[s].pc = "patchResp"
             /\ syncs'[s].resp = Response(409, NoSum, files[syncs[s].path])
             /\ files' = files)]_vars

C1_Witness ==
    \E s \in Slots : /\ syncs[s].pc = "patchResp"
                     /\ syncs[s].resp.status = 409
                     /\ syncs[s].resp.currentContent = files[syncs[s].path]
                     /\ syncs[s].checksum # md5(files[syncs[s].path])

\* C2: a load that finds a server copy and a dirty Draft puts the Draft's
\* content in the editor, leaves the draft store alone (no initShadow) and
\* schedules a push of the path.
C2_DirtyDraftWinsLoad ==
    [][\A l \in loads :
         (/\ l \notin loads'
          /\ getFileContent(l.path) # Absent
          /\ l.localDraft # Absent
          /\ l.localDraft.dirty)
         => (/\ editorDoc' = l.localDraft.content
             /\ drafts' = drafts
             /\ l.path \in loadTimers')]_vars

C2_Witness ==
    /\ filePath # NoPath
    /\ ~loading
    /\ loads = {}
    /\ filePath \in loadTimers
    /\ drafts[filePath] # Absent
    /\ drafts[filePath].dirty
    /\ editorDoc = drafts[filePath].content
    /\ files[filePath] # NoText
    /\ files[filePath] # editorDoc

\* C3: a Draft that is not dirty has content equal to its shadowContent.
C3_CleanMeansPushed ==
    \A p \in Paths :
        (drafts[p] # Absent /\ ~drafts[p].dirty)
            => drafts[p].content = drafts[p].shadowContent

\* C4: once nothing is pending any more (no timer, no load, no push, no
\* syncAll) and the server is reachable, the server holds the text of the
\* user's latest edit of every document and its Draft is not dirty.
Quiescent ==
    /\ saveDraftTimer = NoPath
    /\ saving = Absent
    /\ syncTimer = NoPath
    /\ loadTimers = {}
    /\ loads = {}
    /\ syncAllQ = NoText
    /\ \A s \in Slots : syncs[s].pc = "idle"

C4_EditsReachServer ==
    (Quiescent /\ online)
        => \A p \in Paths :
              lastEdit[p] # NoText
                  => (/\ files[p] = lastEdit[p]
                      /\ drafts[p] # Absent
                      /\ ~drafts[p].dirty)

\* C5: syncFile on a dirty Draft with shadow pair (A, md5(A)) and content B,
\* the server holding A: the request is PATCH diff(A,B) with md5(A), the
\* server accepts it and stores B, and the Draft ends clean with shadow B.
C5_PatchPath ==
    [][\A s \in Slots :
         /\ (/\ Called(s)
             /\ syncs'[s].result # "noop"
             /\ drafts'[syncs'[s].path].shadowContent # NoText
             /\ drafts'[syncs'[s].path].shadowChecksum
                    = md5(drafts'[syncs'[s].path].shadowContent))
            => (/\ syncs'[s].pc = "patchReq"
                /\ syncs'[s].patch =
                      patch_toText(patch_make(drafts'[syncs'[s].path].shadowContent,
                                              drafts'[syncs'[s].path].content))
                /\ syncs'[s].checksum = drafts'[syncs'[s].path].shadowChecksum)
         /\ (/\ PatchChecked(s)
             /\ files[syncs[s].path] # NoText
             /\ syncs[s].checksum = md5(files[syncs[s].path]))
            => (/\ syncs'[s].pc = "patchSrv"
                /\ syncs'[s].staged = syncs[s].content)
         /\ (OnlySlot(s) /\ syncs[s].pc = "patchSrv" /\ syncs'[s].pc = "patchResp")
            => (/\ files'[syncs[s].path] = syncs[s].content
                /\ syncs'[s].resp.status = 200)
         /\ (/\ OnlySlot(s)
             /\ syncs[s].pc = "patchResp"
             /\ syncs'[s].pc = "done")
            => (/\ ~drafts'[syncs[s].path].dirty
                /\ drafts'[syncs[s].path].shadowContent = syncs[s].content)]_vars

\* C6: when the PATCH of syncFile fails, syncFile sends a full overwrite with
\* the content it read; when that succeeds the server holds that content,
\* the Draft the store still holds for the path is clean with that content as
\* its shadow, and syncFile succeeds.
C6_FallbackLocalWins ==
    [][\A s \in Slots :
         /\ (/\ OnlySlot(s)
             /\ syncs[s].pc = "patchResp"
             /\ syncs[s].resp.status # 200
             /\ syncs'[s].pc # "patchResp")
            => (/\ syncs'[s].pc = "putReq"
                /\ syncs'[s].fallback
                /\ syncs'[s].content = syncs[s].content
                /\ syncs'[s].path = syncs[s].path
                /\ drafts' = drafts)
         /\ (/\ OnlySlot(s)
             /\ syncs[s].fallback
             /\ syncs[s].pc = "putReq"
             /\ syncs'[s].pc = "putResp"
             /\ syncs'[s].resp # NetworkError)
            => (/\ files'[syncs[s].path] = syncs[s].content
                /\ syncs'[s].resp.status = 200)
         /\ (/\ OnlySlot(s)
             /\ syncs[s].fallback
             /\ syncs[s].pc = "putResp"
             /\ syncs[s].resp.status = 200
             /\ drafts[syncs[s].path] # Absent
             /\ syncs'[s].pc # "putResp")
            => (/\ syncs'[s].pc = "done"
                /\ syncs'[s].result = "put"
                /\ ~drafts'[syncs[s].path].dirty
                /\ drafts'[syncs[s].path].shadowContent = syncs[s].content
                /\ drafts'[syncs[s].path].shadowChecksum = md5(syncs[s].content))
         /\ (/\ Returned(s)
             /\ syncs[s].fallback
             /\ syncs[s].result = "put"
             /\ syncs[s].caller \in {"timer", "load"})
            => saveStatus' = "saved"]_vars

C6_Witness ==
    \E s \in Slots : /\ syncs[s].pc = "done"
                     /\ syncs[s].fallback
                     /\ syncs[s].failure = 409
                     /\ syncs[s].result = "put"
                     /\ ~drafts[syncs[s].path].dirty
                     /\ drafts[syncs[s].path].shadowContent = syncs[s].content
                     /\ files[syncs[s].path] = syncs[s].content

\* C10: syncFile on an absent or clean Draft returns success without a request
\* and without touching the draft store.
C10_CleanSyncIsNoop ==
    [][\A s \in Slots :
         /\ (/\ Called(s)
             /\ syncs'[s].caller # "force"
             /\ (drafts[syncs'[s].path] = Absent \/ ~drafts[syncs'[s].path].dirty))
            => (/\ syncs'[s].pc = "done"
                /\ syncs'[s].result = "noop"
                /\ drafts' = drafts
                /\ files' = files)
         /\ (/\ syncs[s].pc = "done"
             /\ syncs[s].result = "noop"
             /\ OnlySlot(s)
             /\ syncs'[s] # syncs[s])
            => (/\ Returned(s)
                /\ drafts' = drafts
                /\ files' = files
                /\ syncs[s].caller \in {"timer", "load"} => saveStatus' = "saved")]_vars

C10_Witness ==
    \E s \in Slots : /\ syncs[s].pc = "done"
                     /\ syncs[s].result = "noop"
                     /\ drafts[syncs[s].path] # Absent
                     /\ ~drafts[syncs[s].path].dirty

\* C11: every Draft that has a shadowContent has the fingerprint of that
\* shadowContent as its shadowChecksum.
C11_ShadowPairConsistent ==
    \A p \in Paths :
        (drafts[p] # Absent /\ drafts[p].shadowContent # NoText)
            => drafts[p].shadowChecksum = md5(drafts[p].shadowContent)

\* a push has just replaced the shadow pair of a Draft by a text the server
\* did not hold at the start
C11_Witness ==
    \E s \in Slots :
        /\ syncs[s].pc = "done"
        /\ syncs[s].result \in {"patched", "put"}
        /\ drafts[syncs[s].path] # Absent
        /\ drafts[syncs[s].path].shadowContent = syncs[s].content
        /\ syncs[s].content # <<"a">>

\* C12: a push that cannot be completed leaves the Draft as it is: the failed
\* PATCH leads to the fallback PUT without a write to the store, the failed PUT
\* (fallback or first request) ends the call with a failure, again without a
\* write, so that a Draft that is dirty then makes the next syncFile push again.
C12_FailedPushKeepsDraft ==
    [][\A s \in Slots :
         /\ (/\ OnlySlot(s)
             /\ syncs[s].pc = "patchResp"
             /\ syncs[s].resp.status # 200
             /\ syncs'[s].pc # "patchResp")
            => (drafts' = drafts /\ syncs'[s].pc = "putReq")
         /\ (/\ OnlySlot(s)
             /\ syncs[s].pc = "putResp"
             /\ syncs[s].resp.status # 200
             /\ syncs'[s].pc # "putResp")
            => (/\ syncs'[s].pc = "done"
                /\ syncs'[s].result = "failed"
                /\ drafts' = drafts
                /\ (drafts[syncs[s].path] # Absent /\ drafts[syncs[s].path].dirty)
                      => syncFile(drafts'[syncs[s].path]).kind # "noop")
         /\ (Returned(s) /\ syncs[s].result = "failed") => drafts' = drafts
      ]_vars

\* the PATCH failed, the fallback PUT failed too, the call is about to return
\* its failure, and the Draft is still dirty with the content the call read
C12_Witness ==
    \E s \in Slots :
        /\ syncs[s].pc = "done"
        /\ syncs[s].result = "failed"
        /\ syncs[s].fallback
        /\ drafts[syncs[s].path] # Absent
        /\ drafts[syncs[s].path].dirty
        /\ drafts[syncs[s].path].content = syncs[s].content
        /\ drafts[syncs[s].path].shadowContent # syncs[s].content

\* C17: when loadContent finds a server copy and a Draft that is not dirty, the
\* editor gets the server's content and the Draft becomes content =
\* shadowContent = server content, shadowChecksum = its fingerprint, not dirty.
C17_CleanDraftYieldsToServer ==
    [][\A l \in loads :
         LET serverData == getFileContent(l.path)
         IN  (/\ loads' = loads \ {l}
              /\ serverData # Absent
              /\ l.localDraft # Absent
              /\ ~l.localDraft.dirty)
             => (/\ editorDoc' = serverData.content
                 /\ drafts'[l.path] = NewDraft(files[l.path], FALSE, files[l.path],
                                               md5(files[l.path])))
      ]_vars

\* the document was loaded from a server copy that another client had changed
\* since the clean Draft was written, and the editor shows the server's text
C17_Witness ==
    /\ lastLoad # Absent
    /\ lastLoad.serverData # Absent
    /\ lastLoad.localDraft # Absent
    /\ ~lastLoad.localDraft.dirty
    /\ lastLoad.localDraft.content # lastLoad.serverData.content
    /\ editorDoc = lastLoad.serverData.content
    /\ drafts[lastLoad.path] # Absent
    /\ drafts[lastLoad.path].content = lastLoad.serverData.content
    /\ ~drafts[lastLoad.path].dirty

\* C18: when forceSave has cleared the timers, saved the editor's content and
\* issued its push, nothing timer-driven is left for the document: no 500ms
\* timer or callback of it, no 2000ms timer, no push timer armed by a load.
\* Whatever is left at that point belongs to an edit made before the
\* force-save, and nothing in forceSave cancels it afterwards.
ForceSaved(s) == Called(s) /\ syncs'[s].caller = "force"

C18_ForceSaveLeavesNothingPending ==
    [][\A s \in Slots :
         ForceSaved(s)
            => (/\ drafts'[filePath].content = editorDoc
                /\ saveDraftTimer' = NoPath
                /\ syncTimer' = NoPath
                /\ (saving' = Absent \/ saving'.path # filePath)
                /\ filePath \notin loadTimers')
      ]_vars

\* C20: switching to another document while the 500ms or the 2000ms timer is
\* pending clears the timers and does their work first: a pending persist
\* leaves the editor's content in the Draft of the document being left, and
\* a pending persist or push starts a push of that document.
C20_SwitchFlushes ==
    [][(filePath # NoPath /\ filePath' # filePath)
          => (/\ saveDraftTimer' = NoPath
              /\ syncTimer' = NoPath
              /\ saveDraftTimer # NoPath
                    => (/\ drafts'[filePath] # Absent
                        /\ drafts'[filePath].content = editorDoc)
              /\ (saveDraftTimer # NoPath \/ syncTimer # NoPath)
                    => \E s \in Slots : Called(s) /\ syncs'[s].path = filePath)
      ]_vars

\* a syncFile call whose request is outstanding: sent and not yet settled
InFlight(s) == syncs[s].pc \in {"patchReq", "patchSrv", "patchResp", "putReq", "putResp"}

\* C21: for any document path at most one push is in flight at any time: no
\* two syncFile calls with a request outstanding are for the same path, and
\* no push timer (the 2000ms timer or the load-time timer) is armed for a
\* path while a push of that path has not settled.
C21_OnePushPerPath ==
    /\ \A s, t \in Slots :
          (s # t /\ InFlight(s) /\ InFlight(t)) => syncs[s].path # syncs[t].path
    /\ \A s \in Slots :
          InFlight(s) => (syncTimer # syncs[s].path /\ syncs[s].path \notin loadTimers)

\* router.patch has passed its checksum test and now writes
PatchWritten(s) ==
    /\ OnlySlot(s)
    /\ syncs[s].pc = "patchSrv"
    /\ syncs'[s].pc = "patchResp"

\* C22: the server handles the requests on one path one at a time: nothing
\* is written to the path between the checksum test of a PATCH and its write,
\* so the content a PATCH replaces is the content whose checksum it carried,
\* and two PATCHes with the same base checksum are never both accepted.
C22_ServerSerialisesPath ==
    [][\A s \in Slots :
         PatchWritten(s)
            => (/\ files[syncs[s].path] # NoText
                /\ md5(files[syncs[s].path]) = syncs[s].checksum
                /\ \A t \in Slots \ {s} :
                      (syncs[t].pc = "patchSrv" /\ syncs[t].path = syncs[s].path)
                         => syncs[t].checksum # syncs[s].checksum)
      ]_vars

\* the Draft holds a shadow pair: initShadow or markClean has stored one
HasShadowPair(draft) == draft.shadowContent # NoText /\ draft.shadowChecksum # NoSum

\* C23: syncFile on a dirty Draft sends PATCH diff(shadowContent, content)
\* with shadowChecksum whenever the Draft holds a shadow pair, the empty
\* shadowContent included, and sends the full overwrite exactly when the
\* Draft holds no shadow pair.
C23_PatchIffShadowPair ==
    [][\A s \in Slots :
         (/\ Called(s)
          /\ syncs'[s].result # "noop"
          /\ drafts'[syncs'[s].path] # Absent
          /\ drafts'[syncs'[s].path].dirty)
            => LET draft == drafts'[syncs'[s].path]
               IN  IF HasShadowPair(draft)
                   THEN /\ syncs'[s].pc = "patchReq"
                        /\ syncs'[s].patch =
                              patch_toText(patch_make(draft.shadowContent, draft.content))
                        /\ syncs'[s].checksum = draft.shadowChecksum
                   ELSE syncs'[s].pc = "putReq"
      ]_vars

\* handleContentChange has run: the user changed the open document
Edited == filePath' = filePath /\ editorDoc' # editorDoc /\ budget' # budget

\* C24: every content change cancels the pending 500ms and 2000ms timers and
\* restarts the 500ms timer; the 2000ms timer is armed only when saveDraft
\* has stored that change, so that while it is pending no later change waits
\* to be persisted and the Draft holds the editor's content, and a
\* timer-driven push sends content that saveDraft has stored.
C24_TimerDiscipline ==
    [][/\ Edited => (syncTimer' = NoPath /\ saveDraftTimer' = filePath)
       /\ (syncTimer' # NoPath /\ syncTimer' = filePath')
             => (/\ saveDraftTimer' # syncTimer'
                 /\ drafts'[syncTimer'] # Absent
                 /\ drafts'[syncTimer'].content = editorDoc')
       /\ \A s \in Slots :
             (Called(s) /\ syncs'[s].caller = "timer" /\ syncs'[s].result # "noop")
                => (/\ drafts[syncs'[s].path] # Absent
                    /\ syncs'[s].content = drafts[syncs'[s].path].content)
      ]_vars

\* one iteration of the loop of syncAll: the key at the head is visited
SweepVisited ==
    /\ syncAllQ # NoText
    /\ syncAllQ # <<>>
    /\ \A s \in Slots : syncs[s].caller # "online"
    /\ \/ syncAllQ' = Tail(syncAllQ)
       \/ \E s \in Slots : Called(s) /\ syncs'[s].caller = "online"

\* C25: on the online transition syncAll goes through every key of the draft
\* store; at each key a dirty Draft gets a push request and a Draft that is
\* not dirty gets none; when the push of a key has returned, failed or not,
\* the loop goes on with the remaining keys.
C25_SweepPushesEachDirtyDraft ==
    [][/\ (~online /\ online')
             => \A p \in Paths :
                   (drafts[p] # Absent /\ drafts[p].dirty)
                      => \E i \in 1..Len(syncAllQ') : syncAllQ'[i] = p
       /\ SweepVisited
             => LET key == Head(syncAllQ)
                IN  IF drafts[key] # Absent /\ drafts[key].dirty
                    THEN /\ syncAllQ' = syncAllQ
                         /\ \E s \in Slots :
                               /\ Called(s)
                               /\ syncs'[s].caller = "online"
                               /\ syncs'[s].path = key
                               /\ syncs'[s].pc \in {"patchReq", "putReq"}
                    ELSE /\ syncAllQ' = Tail(syncAllQ)
                         /\ syncs' = syncs
       /\ \A s \in Slots :
             (Returned(s) /\ syncs[s].caller = "online")
                => syncAllQ' = Tail(syncAllQ)
      ]_vars

\* the push of the first key failed, its Draft is still dirty, and the push
\* of the second key is on its way
C25_Witness ==
    /\ syncAllQ = <<"p2">>
    /\ drafts["p1"] # Absent
    /\ drafts["p1"].dirty
    /\ \E s \in Slots :
          /\ InFlight(s)
          /\ syncs[s].caller = "online"
          /\ syncs[s].path = "p2"

\* the 500ms callback has finished: saveDraft has run
Persisted == saving # Absent /\ saving' = Absent

Loaded(l) == l \in loads /\ loads' = loads \ {l}

\* C27: the load decision in the cases other than both copies present.  No
\* answer from the server and no Draft: nothing is loaded and the draft store
\* is unchanged.  No answer from the server and a Draft: its content is
\* loaded, the draft store is unchanged and no push is scheduled.  A server
\* copy and no Draft: the server content is loaded and the store holds a
\* clean Draft whose content and shadowContent are the server content, with
\* its checksum.
C27_LoadWithOneCopy ==
    [][\A l \in loads :
         Loaded(l)
            => LET served == online /\ files[l.path] # NoText
               IN  /\ (~served /\ l.localDraft = Absent)
                         => (/\ drafts' = drafts
                             /\ editorDoc' = editorDoc
                             /\ loadTimers' = loadTimers)
                   /\ (~served /\ l.localDraft # Absent)
                         => (/\ editorDoc' = l.localDraft.content
                             /\ drafts' = drafts
                             /\ loadTimers' = loadTimers)
                   /\ (served /\ l.localDraft = Absent)
                         => (/\ editorDoc' = files[l.path]
                             /\ drafts'[l.path] =
                                   NewDraft(files[l.path], FALSE, files[l.path],
                                            md5(files[l.path]))
                             /\ \A p \in Paths \ {l.path} : drafts'[p] = drafts[p])
      ]_vars

\* a document was loaded from its Draft alone, the server giving no answer
C27_Witness ==
    /\ lastLoad # Absent
    /\ lastLoad.serverData = Absent
    /\ lastLoad.localDraft # Absent
    /\ lastLoad.path = filePath
    /\ editorDoc = lastLoad.localDraft.content
    /\ drafts[filePath] = lastLoad.localDraft
    /\ ~loading

\* the server has taken the document away from path p
Deleted(p) ==
    /\ files[p] # NoText
    /\ files'[p] = NoText
    /\ \A q \in Paths \ {p} : files'[q] = files[q]

\* the server has renamed or moved the document at p to the free path q
Relocated(p, q) ==
    /\ p # q
    /\ files[p] # NoText
    /\ files[q] = NoText
    /\ files'[p] = NoText
    /\ files'[q] = files[p]

\* C28: when a document is deleted through the client no Draft remains under
\* its path, and when a document is renamed or moved through the client its
\* Draft, if it has one, is under the new path and no Draft remains under the
\* old path.
C28_DraftFollowsDocument ==
    [][\A p \in Paths :
         /\ Deleted(p) => drafts'[p] = Absent
         /\ \A q \in Paths :
               Relocated(p, q)
                  => (/\ drafts'[p] = Absent
                      /\ drafts[p] # Absent => drafts'[q] = drafts[p])
      ]_vars

\* a Draft has been taken from path p to path q
DraftRelocated(p, q) ==
    /\ p # q
    /\ drafts[p] # Absent
    /\ drafts'[p] = Absent
    /\ drafts'[q] = drafts[p]

\* C29: a move or rename that the server rejects because the destination
\* exists changes nothing: the document at the destination keeps its content
\* and no Draft is taken to the destination path.
C29_RejectedMoveChangesNothing ==
    [][\A p, q \in Paths :
         (DraftRelocated(p, q) /\ online) => files[q] = NoText
      ]_vars

\* ================================================= asset garbage collector
\* gc.ts.  Time is counted in days.  A document is the set of link targets
\* its text embeds and its mtime; an asset is a file directly under
\* IMAGES_DIR with its mtime; a recovery item is a file under TRASH_DIR,
\* named prefix_stamp_base, with the mtime the file had when it was moved
\* (fs.move renames, which keeps the mtime).
THIRTY_DAYS == 30

AssetNames == {<<"x">>, <<"y">>, <<".", "k">>}
DocNames == {<<"d">>, <<".", "d">>}

\* a link target as written in a document: under /upload/ or not, naming an
\* asset, percent-encoded or not, with or without a query string, with or
\* without scheme and host in front
Url(asset, encoded, query, host) ==
    [asset |-> asset, encoded |-> encoded, query |-> query, host |-> host]

Urls == {Url(<<"x">>, e, q, h) : e \in BOOLEAN, q \in BOOLEAN, h \in BOOLEAN}
            \cup {Url(<<"y">>, FALSE, FALSE, FALSE)}

\* the reference relation of the design: the target, without its query string
\* and percent-decoded, is the path of the asset under the asset prefix
Refers(url, asset) == url.asset = asset /\ ~url.host

decodeURIComponent(url) == [url EXCEPT !.encoded = FALSE]

\* '/' + path.relative(DATA_DIR, assetPath)
urlPath(asset) == Url(asset, FALSE, FALSE, FALSE)

startsWithDot(name) == name # <<>> /\ name[1] = "."

\* getMarkdownFiles(DATA_DIR): every document whose name does not start with
\* a dot
getMarkdownFiles(docs) == {d \in DOMAIN docs : ~startsWithDot(d)}

\* the Mark step over these documents: every image target containing
\* '/upload/', percent-decoded
MarkUsed(docs) ==
    {decodeURIComponent(u) : u \in UNION {docs[d].refs : d \in getMarkdownFiles(docs)}}

\* getAllFiles(IMAGES_DIR): every file whose name does not start with a dot
getAllFiles(assets) == {a.name : a \in {b \in assets : ~startsWithDot(b.name)}}

\* a variant of the Sweep test that finds no orphan
IsOrphan_Never(usedFiles, asset) == FALSE

\* the test of the Sweep step
IsOrphan(usedFiles, asset) == urlPath(asset) \notin usedFiles

\* the test of the Reap step
Expired(now, item) == now - item.mtime > THIRTY_DAYS

TrashItem(prefix, stamp, base, mtime) ==
    [prefix |-> prefix, stamp |-> stamp, base |-> base, mtime |-> mtime]

Mtimes == {0, THIRTY_DAYS + THIRTY_DAYS}

GCInit ==
    /\ SyncInit
    /\ FSIdleInit
    /\ gcNow = THIRTY_DAYS + THIRTY_DAYS
    /\ \E present \in SUBSET DocNames :
         \E refs \in [present -> {r \in SUBSET Urls : Cardinality(r) <= 1}] :
           \E mt \in [present -> Mtimes] :
             gcDocs = [d \in present |-> [refs |-> refs[d], mtime |-> mt[d]]]
    /\ \E present \in SUBSET AssetNames :
         \E mt \in [present -> Mtimes] :
           gcAssets = {[name |-> n, mtime |-> mt[n]] : n \in present}
    /\ gcTrash = {}
    /\ gcRun = Absent
    /\ gcBudget = 0
    /\ gcRuns = [r \in 1..MaxRuns |-> Absent]

\* the cron job starts runGarbageCollection; Mark reads every document
GCMark ==
    /\ gcRun = Absent
    /\ gcBudget < MaxGCEvents
    /\ gcBudget' = gcBudget + 1
    /\ gcRun' = [pc |-> "list", usedFiles |-> MarkUsed(gcDocs), todo |-> {},
                 now |-> gcNow, startDocs |-> gcDocs, startAssets |-> gcAssets,
                 startTrash |-> gcTrash, quarantined |-> {}]
    /\ UNCHANGED <<gcDocs, gcAssets, gcTrash, gcNow>>

\* Physical List
GCList ==
    /\ gcRun # Absent
    /\ gcRun.pc = "list"
    /\ gcRun' = [gcRun EXCEPT !.pc = "sweep", !.todo = getAllFiles(gcAssets)]
    /\ UNCHANGED <<gcDocs, gcAssets, gcTrash, gcNow, gcBudget>>

NextOf(S) == CHOOSE x \in S : TRUE

\* one iteration of the Sweep loop: an orphan is moved to
\* _trash/orphaned_<now>_<basename>
GCSweep ==
    /\ gcRun # Absent
    /\ gcRun.pc = "sweep"
    /\ gcRun.todo # {}
    /\ LET name  == NextOf(gcRun.todo)
           asset == CHOOSE a \in gcAssets : a.name = name
           item  == TrashItem("orphaned", gcNow, name, asset.mtime)
       IN  IF IsOrphan(gcRun.usedFiles, name)
           THEN /\ gcAssets' = gcAssets \ {asset}
                /\ gcTrash' = gcTrash \cup {item}
                /\ gcRun' = [gcRun EXCEPT !.todo = @ \ {name},
                                          !.quarantined = @ \cup {item}]
           ELSE /\ gcRun' = [gcRun EXCEPT !.todo = @ \ {name}]
                /\ UNCHANGED <<gcAssets, gcTrash>>
    /\ UNCHANGED <<gcDocs, gcNow, gcBudget>>

\* Clean Trash: readdir(TRASH_DIR), now = Date.now()
GCTrashList ==
    /\ gcRun # Absent
    /\ gcRun.pc = "sweep"
    /\ gcRun.todo = {}
    /\ gcRun' = [gcRun EXCEPT !.pc = "reap", !.todo = gcTrash, !.now = gcNow]
    /\ UNCHANGED <<gcDocs, gcAssets, gcTrash, gcNow, gcBudget>>

\* one iteration of the Clean Trash loop
GCReap ==
    /\ gcRun # Absent
    /\ gcRun.pc = "reap"
    /\ gcRun.todo # {}
    /\ LET item == NextOf(gcRun.todo)
       IN  /\ gcTrash' = IF Expired(gcRun.now, item) THEN gcTrash \ {item} ELSE gcTrash
           /\ gcRun' = [gcRun EXCEPT !.todo = @ \ {item}]
    /\ UNCHANGED <<gcDocs, gcAssets, gcNow, gcBudget>>

\* runGarbageCollection has logged 'Completed'
GCCompleted ==
    /\ gcRun # Absent
    /\ gcRun.pc = "reap"
    /\ gcRun.todo = {}
    /\ gcRun' = [gcRun EXCEPT !.pc = "done"]
    /\ UNCHANGED <<gcDocs, gcAssets, gcTrash, gcNow, gcBudget>>

GCReturn ==
    /\ gcRun # Absent
    /\ gcRun.pc = "done"
    /\ gcRun' = Absent
    /\ UNCHANGED <<gcDocs, gcAssets, gcTrash, gcNow, gcBudget>>

\* router.delete('/') on a document: moved to _trash/<now>_<basename>
SoftDelete(d) ==
    /\ gcRun = Absent
    /\ gcBudget < MaxGCEvents
    /\ d \in DOMAIN gcDocs
    /\ gcBudget' = gcBudget + 1
    /\ gcDocs' = [e \in DOMAIN gcDocs \ {d} |-> gcDocs[e]]
    /\ gcTrash' = gcTrash \cup {TrashItem("", gcNow, d, gcDocs[d].mtime)}
    /\ UNCHANGED <<gcAssets, gcNow, gcRun>>

\* time passes between two passes
Tick(days) ==
    /\ gcRun = Absent
    /\ gcBudget < MaxGCEvents
    /\ gcBudget' = gcBudget + 1
    /\ gcNow' = gcNow + days
    /\ UNCHANGED <<gcDocs, gcAssets, gcTrash, gcRun>>

GCNext ==
    \/ GCMark
    \/ GCList
    \/ GCSweep
    \/ GCTrashList
    \/ GCReap
    \/ GCCompleted
    \/ GCReturn
    \/ \E d \in DocNames : SoftDelete(d)
    \/ \E days \in {1, THIRTY_DAYS - 1} : Tick(days)

NextGC == GCNext /\ UNCHANGED <<syncVars, fsVars, gcRuns>>

SpecGC == GCInit /\ [][NextGC]_vars

\* ============================================== properties of the collector
Done == gcRun # Absent /\ gcRun.pc = "done"

ReferencedAtStart(name) ==
    \E d \in DOMAIN gcRun.startDocs : \E u \in gcRun.startDocs[d].refs : Refers(u, name)

\* C7: every asset referenced by some document at the start of a pass is
\* still at its original path when the pass has completed.
C7_ReferencedAssetsKept ==
    Done => \A a \in gcRun.startAssets : ReferencedAtStart(a.name) => a \in gcAssets

\* C8: a pass removes an item from the recovery area only if more than 30
\* days have passed since the item was moved there.
C8_RetentionWindow ==
    [][\A item \in gcTrash : item \notin gcTrash' => gcNow - item.stamp > THIRTY_DAYS]_vars

\* C9 as stated: after a completed pass every physical file under the asset
\* root that no document referenced has left its path and was moved to the
\* recovery area under an orphaned_ name.
SweptAway(a) ==
    /\ a \notin gcAssets
    /\ \E item \in gcRun.quarantined :
          /\ item.prefix = "orphaned"
          /\ item.base = a.name
          /\ item.mtime = a.mtime
          /\ item \in gcTrash \/ Expired(gcRun.now, item)

C9_EveryOrphanSwept ==
    Done => \A a \in gcRun.startAssets : ~ReferencedAtStart(a.name) => SweptAway(a)

\* C9 amended: the same for the files whose name does not start with a dot.
C9_VisibleOrphansSwept ==
    Done => \A a \in gcRun.startAssets :
               (~ReferencedAtStart(a.name) /\ ~startsWithDot(a.name)) => SweptAway(a)

C9_Witness ==
    /\ Done
    /\ \E a \in gcRun.startAssets :
          /\ ~ReferencedAtStart(a.name)
          /\ ~startsWithDot(a.name)
          /\ SweptAway(a)
          /\ \E item \in gcTrash : item.base = a.name /\ item.prefix = "orphaned"

\* ================================ the collector among requests and other runs
\* gc.ts next to routes/files.ts.  runGarbageCollection awaits every access to
\* the disk, so the requests of the file API and the steps of another run
\* take place between two steps of a run.  A document is the set of its link
\* targets, its mtime, and whether one of its targets under /upload/ has a
\* malformed percent sequence.  The body of runGarbageCollection is one try
\* block: whatever is thrown in it ends the run in the catch.
RunIds == 1..MaxRuns

RaceAssets == {<<"x">>, <<"y">>}

OldItem == TrashItem("", 0, <<"t">>, 0)

NewItem == TrashItem("", THIRTY_DAYS + THIRTY_DAYS, <<"u">>, THIRTY_DAYS + THIRTY_DAYS)

Document(refs, mtime, malformed) == [refs |-> refs, mtime |-> mtime, malformed |-> malformed]

GCRaceInit ==
    /\ SyncInit
    /\ FSIdleInit
    /\ gcNow = THIRTY_DAYS + THIRTY_DAYS
    /\ \E present \in SUBSET {<<"d">>} :
         \E refs \in [present -> {{}, {urlPath(<<"x">>)}}] :
           \E bad \in [present -> BOOLEAN] :
             gcDocs = [d \in present |-> Document(refs[d], gcNow, bad[d])]
    /\ \E present \in SUBSET RaceAssets :
         gcAssets = {[name |-> n, mtime |-> 0] : n \in present}
    /\ gcTrash \in SUBSET {OldItem, NewItem}
    /\ gcRun = Absent
    /\ gcBudget = 0
    /\ gcRuns = [r \in RunIds |-> Absent]

\* the state of a run: where it is, what it still has to visit, the
\* reference set, the time taken for Clean Trash, and how it ended.  began
\* is history, not held by the code: the names of the assets on disk when
\* runGarbageCollection was called.
Run(pc, todo, usedFiles, now, outcome, cause, began) ==
    [pc |-> pc, todo |-> todo, usedFiles |-> usedFiles, now |-> now,
     outcome |-> outcome, cause |-> cause, began |-> began]

\* the catch block: the error is logged and runGarbageCollection returns
Caught(run, cause) == [run EXCEPT !.pc = "done", !.outcome = "error", !.cause = cause]

FreeRuns == {r \in RunIds : gcRuns[r] = Absent}

\* the cron callback: runGarbageCollection() is called, getMarkdownFiles lists
\* the documents
CronFire ==
    /\ FreeRuns # {}
    /\ gcBudget < MaxGCEvents
    /\ gcBudget' = gcBudget + 1
    /\ LET r == CHOOSE f \in FreeRuns : \A g \in FreeRuns : f <= g
       IN  gcRuns' = [gcRuns EXCEPT ![r] =
                         Run("mark", getMarkdownFiles(gcDocs), {}, 0, "none", "none",
                             {a.name : a \in gcAssets})]
    /\ UNCHANGED <<gcDocs, gcAssets, gcTrash, gcNow, gcRun>>

\* one iteration of the Mark loop: readFile, then decodeURIComponent of every
\* target under /upload/
MarkOne(r) ==
    /\ gcRuns[r] # Absent
    /\ gcRuns[r].pc = "mark"
    /\ gcRuns[r].todo # {}
    /\ LET d == NextOf(gcRuns[r].todo)
       IN  gcRuns' = [gcRuns EXCEPT ![r] =
                        IF d \notin DOMAIN gcDocs THEN Caught(@, "gone")
                        ELSE IF gcDocs[d].malformed THEN Caught(@, "file")
                        ELSE [@ EXCEPT !.todo = @ \ {d},
                                       !.usedFiles = @ \cup {decodeURIComponent(u) :
                                                                u \in gcDocs[d].refs}]]
    /\ UNCHANGED <<gcDocs, gcAssets, gcTrash, gcNow, gcRun, gcBudget>>

\* Physical List: getAllFiles(IMAGES_DIR)
ListAssets(r) ==
    /\ gcRuns[r] # Absent
    /\ gcRuns[r].pc = "mark"
    /\ gcRuns[r].todo = {}
    /\ gcRuns' = [gcRuns EXCEPT ![r] = [@ EXCEPT !.pc = "sweep",
                                                 !.todo = getAllFiles(gcAssets)]]
    /\ UNCHANGED <<gcDocs, gcAssets, gcTrash, gcNow, gcRun, gcBudget>>

\* a variant of the Sweep iteration that takes the data root for the asset
\* root: with an orphan, the documents without targets are moved away too
SweepOne_DataRoot(r) ==
    /\ gcRuns[r] # Absent
    /\ gcRuns[r].pc = "sweep"
    /\ gcRuns[r].todo # {}
    /\ LET name == NextOf(gcRuns[r].todo)
           here == {a \in gcAssets : a.name = name}
       IN  IF ~IsOrphan(gcRuns[r].usedFiles, name)
           THEN /\ gcRuns' = [gcRuns EXCEPT ![r] = [@ EXCEPT !.todo = @ \ {name}]]
                /\ UNCHANGED <<gcDocs, gcAssets, gcTrash>>
           ELSE IF here = {}
           THEN /\ gcRuns' = [gcRuns EXCEPT ![r] = Caught(@, "gone")]
                /\ UNCHANGED <<gcDocs, gcAssets, gcTrash>>
           ELSE /\ gcAssets' = gcAssets \ here
                /\ gcTrash' = gcTrash \cup {TrashItem("orphaned", gcNow, name, a.mtime) :
                                               a \in here}
                /\ gcDocs' = [d \in {e \in DOMAIN gcDocs : gcDocs[e].refs # {}} |-> gcDocs[d]]
                /\ gcRuns' = [gcRuns EXCEPT ![r] = [@ EXCEPT !.todo = @ \ {name}]]
    /\ UNCHANGED <<gcNow, gcRun, gcBudget>>

\* one iteration of the Sweep loop: fs.move of an orphan to
\* _trash/orphaned_<now>_<basename>, which throws when the file is not there
SweepOne(r) ==
    /\ gcRuns[r] # Absent
    /\ gcRuns[r].pc = "sweep"
    /\ gcRuns[r].todo # {}
    /\ LET name == NextOf(gcRuns[r].todo)
           here == {a \in gcAssets : a.name = name}
       IN  IF ~IsOrphan(gcRuns[r].usedFiles, name)
           THEN /\ gcRuns' = [gcRuns EXCEPT ![r] = [@ EXCEPT !.todo = @ \ {name}]]
                /\ UNCHANGED <<gcAssets, gcTrash>>
           ELSE IF here = {}
           THEN /\ gcRuns' = [gcRuns EXCEPT ![r] = Caught(@, "gone")]
                /\ UNCHANGED <<gcAssets, gcTrash>>
           ELSE /\ gcAssets' = gcAssets \ here
                /\ gcTrash' = gcTrash \cup {TrashItem("orphaned", gcNow, name, a.mtime) :
                                               a \in here}
                /\ gcRuns' = [gcRuns EXCEPT ![r] = [@ EXCEPT !.todo = @ \ {name}]]
    /\ UNCHANGED <<gcDocs, gcNow, gcRun, gcBudget>>

\* Clean Trash: readdir(TRASH_DIR), now = Date.now()
ListTrash(r) ==
    /\ gcRuns[r] # Absent
    /\ gcRuns[r].pc = "sweep"
    /\ gcRuns[r].todo = {}
    /\ gcRuns' = [gcRuns EXCEPT ![r] = [@ EXCEPT !.pc = "reap", !.todo = gcTrash,
                                                 !.now = gcNow]]
    /\ UNCHANGED <<gcDocs, gcAssets, gcTrash, gcNow, gcRun, gcBudget>>

\* one iteration of the Clean Trash loop: fs.stat, which throws when the item
\* is not there, then fs.remove of an old item
ReapOne(r) ==
    /\ gcRuns[r] # Absent
    /\ gcRuns[r].pc = "reap"
    /\ gcRuns[r].todo # {}
    /\ LET item == NextOf(gcRuns[r].todo)
       IN  IF item \notin gcTrash
           THEN /\ gcRuns' = [gcRuns EXCEPT ![r] = Caught(@, "gone")]
                /\ gcTrash' = gcTrash
           ELSE /\ gcTrash' = IF Expired(gcRuns[r].now, item) THEN gcTrash \ {item}
                              ELSE gcTrash
                /\ gcRuns' = [gcRuns EXCEPT ![r] = [@ EXCEPT !.todo = @ \ {item}]]
    /\ UNCHANGED <<gcDocs, gcAssets, gcNow, gcRun, gcBudget>>

\* the run has logged 'Completed'
Complete(r) ==
    /\ gcRuns[r] # Absent
    /\ gcRuns[r].pc = "reap"
    /\ gcRuns[r].todo = {}
    /\ gcRuns' = [gcRuns EXCEPT ![r] = [@ EXCEPT !.pc = "done", !.outcome = "completed"]]
    /\ UNCHANGED <<gcDocs, gcAssets, gcTrash, gcNow, gcRun, gcBudget>>

\* runGarbageCollection returns
RunReturn(r) ==
    /\ gcRuns[r] # Absent
    /\ gcRuns[r].pc = "done"
    /\ gcRuns' = [gcRuns EXCEPT ![r] = Absent]
    /\ UNCHANGED <<gcDocs, gcAssets, gcTrash, gcNow, gcRun, gcBudget>>

\* router.delete('/') on a document, at any time
DeleteDoc(d) ==
    /\ gcBudget < MaxGCEvents
    /\ d \in DOMAIN gcDocs
    /\ gcBudget' = gcBudget + 1
    /\ gcDocs' = [e \in DOMAIN gcDocs \ {d} |-> gcDocs[e]]
    /\ gcTrash' = gcTrash \cup {TrashItem("", gcNow, d, gcDocs[d].mtime)}
    /\ UNCHANGED <<gcAssets, gcNow, gcRun, gcRuns>>

\* router.delete('/') on a file under upload/, at any time
DeleteAsset(a) ==
    /\ gcBudget < MaxGCEvents
    /\ a \in gcAssets
    /\ gcBudget' = gcBudget + 1
    /\ gcAssets' = gcAssets \ {a}
    /\ gcTrash' = gcTrash \cup {TrashItem("", gcNow, a.name, a.mtime)}
    /\ UNCHANGED <<gcDocs, gcNow, gcRun, gcRuns>>

\* router.post('/upload'): multer has stored the file under IMAGES_DIR
Upload(name) ==
    /\ gcBudget < MaxGCEvents
    /\ \A a \in gcAssets : a.name # name
    /\ gcBudget' = gcBudget + 1
    /\ gcAssets' = gcAssets \cup {[name |-> name, mtime |-> gcNow]}
    /\ UNCHANGED <<gcDocs, gcTrash, gcNow, gcRun, gcRuns>>

\* router.put('/') of a document whose text embeds the URL of a stored asset
SaveDoc(d, name) ==
    /\ gcBudget < MaxGCEvents
    /\ \E a \in gcAssets : a.name = name
    /\ gcBudget' = gcBudget + 1
    /\ gcDocs' = [e \in DOMAIN gcDocs \cup {d} |->
                    IF e = d THEN Document({urlPath(name)}, gcNow, FALSE) ELSE gcDocs[e]]
    /\ UNCHANGED <<gcAssets, gcTrash, gcNow, gcRun, gcRuns>>

GCRaceNext ==
    \/ CronFire
    \/ \E r \in RunIds : MarkOne(r)
    \/ \E r \in RunIds : ListAssets(r)
    \/ \E r \in RunIds : SweepOne(r)
    \/ \E r \in RunIds : ListTrash(r)
    \/ \E r \in RunIds : ReapOne(r)
    \/ \E r \in RunIds : Complete(r)
    \/ \E r \in RunIds : RunReturn(r)
    \/ \E d \in {<<"d">>} : DeleteDoc(d)
    \/ \E a \in gcAssets : DeleteAsset(a)
    \/ \E name \in RaceAssets : Upload(name)
    \/ \E d \in {<<"d">>}, name \in RaceAssets : SaveDoc(d, name)

NextGCRace == GCRaceNext /\ UNCHANGED <<syncVars, fsVars>>

SpecGCRace == GCRaceInit /\ [][NextGCRace]_vars

\* ------------------------------------- properties of the collector in company
\* runGarbageCollection has returned from its try block or from its catch
Ended(r) == gcRuns[r] # Absent /\ gcRuns[r].pc = "done"

\* C31: an error on a single file makes the run skip that file only: a run
\* that met no vanished file ends completed, with the old recovery item
\* reaped, whatever the documents hold.
C31_FileErrorSkipsFile ==
    \A r \in RunIds :
       (Ended(r) /\ gcRuns[r].cause # "gone")
          => (gcRuns[r].outcome = "completed" /\ OldItem \notin gcTrash)

\* the file the run r is about to read, move or stat is no longer there
Vanished(r) ==
    /\ gcRuns[r] # Absent
    /\ gcRuns[r].todo # {}
    /\ LET x == NextOf(gcRuns[r].todo)
       IN  CASE gcRuns[r].pc = "mark" -> x \notin DOMAIN gcDocs
             [] gcRuns[r].pc = "sweep" -> \A a \in gcAssets : a.name # x
             [] gcRuns[r].pc = "reap" -> x \notin gcTrash
             [] OTHER -> FALSE

\* C32: a run tolerates files deleted by requests while it runs: when the
\* document, asset or recovery item it comes to has disappeared, the run
\* skips it and goes on with the rest of its list.
C32_VanishedFileSkipped ==
    [][\A r \in RunIds :
         (Vanished(r) /\ gcRuns'[r] # gcRuns[r])
            => gcRuns'[r] = [gcRuns[r] EXCEPT !.todo = @ \ {NextOf(gcRuns[r].todo)}]
      ]_vars

\* C33: at most one run of the collector is in flight at any time.
C33_OneRunInFlight ==
    \A r, q \in RunIds : (gcRuns[r] # Absent /\ gcRuns[q] # Absent) => r = q

\* a run has taken a step
RunStepped == gcRuns' # gcRuns

\* C34: no step of a run creates, changes, moves or deletes a document; a run
\* only moves files out of the asset root into the recovery area and removes
\* items from the recovery area.
C34_RunLeavesDocuments ==
    [][RunStepped
          => (/\ gcDocs' = gcDocs
              /\ gcAssets' \subseteq gcAssets
              /\ \A item \in gcTrash' \ gcTrash :
                    /\ item.prefix = "orphaned"
                    /\ \E a \in gcAssets \ gcAssets' : a.name = item.base)
      ]_vars

\* a run has completed after moving an orphan to the recovery area, and the
\* document is there with its reference
C34_Witness ==
    \E r \in RunIds :
       /\ Ended(r)
       /\ gcRuns[r].outcome = "completed"
       /\ <<"d">> \in DOMAIN gcDocs
       /\ gcDocs[<<"d">>].refs = {urlPath(<<"x">>)}
       /\ \E a \in gcAssets : a.name = <<"x">>
       /\ \E item \in gcTrash : item.prefix = "orphaned" /\ item.base = <<"y">>
       /\ OldItem \notin gcTrash

\* the Sweep step has moved the asset a to the recovery area
Quarantined(a) ==
    /\ a \in gcAssets
    /\ a \notin gcAssets'
    /\ TrashItem("orphaned", gcNow, a.name, a.mtime) \in gcTrash'

\* the asset a was uploaded after the run r began
UploadedDuring(r, a) == gcRuns[r] # Absent /\ a.name \notin gcRuns[r].began

\* C39: a run does not quarantine an asset that was uploaded while the run
\* was in flight and that a stored document refers to, for instance when the
\* upload and the save fall between the Mark step and the Physical List.
C39_UploadDuringRunKept ==
    [][\A r \in RunIds : \A a \in gcAssets :
         (gcRuns'[r] # gcRuns[r] /\ UploadedDuring(r, a) /\ Quarantined(a))
            => ~\E d \in DOMAIN gcDocs : \E u \in gcDocs[d].refs : Refers(u, a.name)
      ]_vars

\* ============================================================ the file API
\* routes/files.ts behind middleware/auth.ts.  A path is a sequence of
\* characters.  The disk holds the files the request paths can resolve to:
\* inside the data root /d, in its subdirectory /d/s, in the sibling directory
\* /d2 and at /e; a file is its text, NoText when it does not exist.  /d/s may
\* or may not exist; the root, /d2 and / always do.  The recovery area is a set
\* of items named stamp_base.  Requests address files, not directories.
DATA_DIR == <<"/", "d">>

ReqPaths ==
    { <<>>,
      <<"f">>,
      <<"/", "f">>,
      <<"g">>,
      <<"s", "/", "f">>,
      <<".", ".", "/", "d", "2", "/", "f">>,
      <<".", ".", "/", "e">> }

FSTexts == {<<>>, <<"a">>, <<"b">>}
Tokens == {"none", "malformed", "bad", "good"}

\* reqPath.replace(/^\/+/, '')
RECURSIVE StripSlashes(_)
StripSlashes(p) ==
    IF p # <<>> /\ Head(p) = "/" THEN StripSlashes(Tail(p)) ELSE p

\* the segments between the slashes of p, cur being the one under way
RECURSIVE Segments(_, _)
Segments(p, cur) ==
    IF p = <<>> THEN <<cur>>
    ELSE IF Head(p) = "/" THEN <<cur>> \o Segments(Tail(p), <<>>)
    ELSE Segments(Tail(p), Append(cur, Head(p)))

\* path normalisation: empty and "." segments vanish, ".." removes the
\* segment before it
RECURSIVE Normalize(_, _)
Normalize(segs, stack) ==
    IF segs = <<>> THEN stack
    ELSE LET h == Head(segs)
         IN  Normalize(Tail(segs),
                       IF h = <<>> \/ h = <<".">> THEN stack
                       ELSE IF h = <<".", ".">>
                       THEN (IF stack = <<>> THEN stack
                             ELSE SubSeq(stack, 1, Len(stack) - 1))
                       ELSE Append(stack, h))

RECURSIVE JoinSegs(_)
JoinSegs(stack) ==
    IF stack = <<>> THEN <<>>
    ELSE <<"/">> \o Head(stack) \o JoinSegs(Tail(stack))

\* path.resolve(base, rel) for an absolute base and a relative rel
resolve(base, rel) ==
    LET stack == Normalize(Segments(base \o <<"/">> \o rel, <<>>), <<>>)
    IN  IF stack = <<>> THEN <<"/">> ELSE JoinSegs(stack)

\* String.prototype.startsWith
startsWith(str, prefix) ==
    Len(prefix) <= Len(str) /\ SubSeq(str, 1, Len(prefix)) = prefix

dirname(abs) ==
    LET stack == Normalize(Segments(abs, <<>>), <<>>)
    IN  IF Len(stack) <= 1 THEN <<"/">>
        ELSE JoinSegs(SubSeq(stack, 1, Len(stack) - 1))

basename(abs) ==
    LET stack == Normalize(Segments(abs, <<>>), <<>>)
    IN  stack[Len(stack)]

\* what getSafePath returns when it throws
Thrown == <<>>

\* getSafePath: the resolved path, or the throw when it does not start with
\* the characters of DATA_DIR
getSafePath(reqPath) ==
    LET safePath == resolve(DATA_DIR, StripSlashes(reqPath))
    IN  IF startsWith(safePath, DATA_DIR) THEN safePath ELSE Thrown

Resolved(reqPath) == resolve(DATA_DIR, StripSlashes(reqPath))

AbsFiles == {Resolved(r) : r \in ReqPaths \ {<<>>}}

\* strictly inside the data root
InsideRoot(abs) == startsWith(abs, DATA_DIR \o <<"/">>)

AlwaysDirs == {<<"/">>, DATA_DIR, <<"/", "d", "2">>}
SubDir == <<"/", "d", "/", "s">>

DirExists(disk, dir) == dir \in AlwaysDirs \cup disk.dirs

\* fs.pathExists
pathExists(disk, abs) == disk.files[abs] # NoText

\* fs.ensureDir
ensureDir(disk, dir) ==
    IF dir \in AlwaysDirs THEN disk ELSE [disk EXCEPT !.dirs = @ \cup {dir}]

\* what a handler leaves and answers
Result(disk, status, content, checksum) ==
    [disk |-> disk, status |-> status, content |-> content, checksum |-> checksum]

Fail(disk, status) == Result(disk, status, NoText, NoSum)

\* a variant of authMiddleware that lets every request with a header through
authMiddleware_HeaderOnly(password, token) ==
    IF ~password THEN "next"
    ELSE IF token = "none" THEN "401"
    ELSE "next"

\* authMiddleware: no PASSWORD, or a token that jwt.verify accepts
authMiddleware(password, token) ==
    IF ~password THEN "next"
    ELSE IF token = "none" THEN "401"
    ELSE IF token = "malformed" THEN "401"
    ELSE IF token = "good" THEN "next"
    ELSE "401"

\* router.get('/content')
route_get(disk, path) ==
    IF path = <<>> THEN Fail(disk, 400)
    ELSE LET fullPath == getSafePath(path)
         IN  IF fullPath = Thrown THEN Fail(disk, 500)
             ELSE IF ~pathExists(disk, fullPath) THEN Fail(disk, 404)
             ELSE Result(disk, 200, disk.files[fullPath], md5(disk.files[fullPath]))

\* router.post('/') with type 'file'
route_post(disk, path) ==
    IF path = <<>> THEN Fail(disk, 400)
    ELSE LET fullPath == getSafePath(path)
         IN  IF fullPath = Thrown THEN Fail(disk, 500)
             ELSE IF pathExists(disk, fullPath) THEN Fail(disk, 400)
             ELSE IF ~DirExists(disk, dirname(fullPath)) THEN Fail(disk, 500)
             ELSE Result([disk EXCEPT !.files[fullPath] = <<>>], 200, NoText, NoSum)

\* a variant of router.put('/') that updates existing files only
route_put_ExistingOnly(disk, path, content) ==
    IF path = <<>> THEN Fail(disk, 400)
    ELSE LET fullPath == getSafePath(path)
         IN  IF fullPath = Thrown THEN Fail(disk, 500)
             ELSE IF ~pathExists(disk, fullPath) THEN Fail(disk, 404)
             ELSE Result([disk EXCEPT !.files[fullPath] = router_put(content).write],
                         200, NoText, router_put(content).resp.checksum)

\* router.put('/'): fs.writeFile fails when the directory is missing
route_put(disk, path, content) ==
    IF path = <<>> THEN Fail(disk, 400)
    ELSE LET fullPath == getSafePath(path)
         IN  IF fullPath = Thrown THEN Fail(disk, 500)
             ELSE IF ~DirExists(disk, dirname(fullPath)) THEN Fail(disk, 500)
             ELSE Result([disk EXCEPT !.files[fullPath] = router_put(content).write],
                         200, NoText, router_put(content).resp.checksum)

\* router.patch('/')
route_patch(disk, path, patch, checksum) ==
    IF path = <<>> \/ ~TruthySum(checksum) THEN Fail(disk, 400)
    ELSE LET fullPath == getSafePath(path)
         IN  IF fullPath = Thrown THEN Fail(disk, 500)
             ELSE LET r == router_patch(disk.files[fullPath], patch, checksum)
                  IN  IF r.resp # Absent
                      THEN Result(disk, r.resp.status, r.resp.currentContent, NoSum)
                      ELSE Result([disk EXCEPT !.files[fullPath] = r.write], 200, NoText,
                                  router_patch_written(r.write).checksum)

\* router.delete('/'): fs.move refuses a destination that exists
route_delete(disk, path, now) ==
    IF path = <<>> THEN Fail(disk, 400)
    ELSE LET fullPath == getSafePath(path)
         IN  IF fullPath = Thrown THEN Fail(disk, 500)
             ELSE IF ~pathExists(disk, fullPath) THEN Fail(disk, 404)
             ELSE IF \E item \in disk.trash :
                        item.stamp = now /\ item.base = basename(fullPath)
             THEN Fail(disk, 500)
             ELSE Result([disk EXCEPT
                            !.files[fullPath] = NoText,
                            !.trash = @ \cup {[stamp |-> now, base |-> basename(fullPath),
                                               content |-> disk.files[fullPath]]}],
                         200, NoText, NoSum)

\* router.post('/rename'): fs.rename needs the source and the directory of
\* the destination
route_rename(disk, oldPath, newPath) ==
    IF oldPath = <<>> \/ newPath = <<>> THEN Fail(disk, 400)
    ELSE LET fullOldPath == getSafePath(oldPath)
             fullNewPath == getSafePath(newPath)
         IN  IF fullOldPath = Thrown \/ fullNewPath = Thrown THEN Fail(disk, 500)
             ELSE IF pathExists(disk, fullNewPath) THEN Fail(disk, 400)
             ELSE IF ~pathExists(disk, fullOldPath) THEN Fail(disk, 500)
             ELSE IF ~DirExists(disk, dirname(fullNewPath)) THEN Fail(disk, 500)
             ELSE Result([disk EXCEPT !.files[fullNewPath] = disk.files[fullOldPath],
                                      !.files[fullOldPath] = NoText],
                         200, NoText, NoSum)

\* a variant of router.post('/move') without the test of the destination
route_move_Overwrite(disk, oldPath, newPath) ==
    IF oldPath = <<>> \/ newPath = <<>> THEN Fail(disk, 400)
    ELSE LET fullOldPath == getSafePath(oldPath)
             fullNewPath == getSafePath(newPath)
         IN  IF fullOldPath = Thrown \/ fullNewPath = Thrown THEN Fail(disk, 500)
             ELSE LET made == ensureDir(disk, dirname(fullNewPath))
                  IN  IF ~pathExists(made, fullOldPath) \/ fullOldPath = fullNewPath
                      THEN Fail(made, 500)
                      ELSE Result([made EXCEPT
                                     !.files[fullNewPath] = disk.files[fullOldPath],
                                     !.files[fullOldPath] = NoText],
                                  200, NoText, NoSum)

\* router.post('/move'): the directory of the destination is made first
route_move(disk, oldPath, newPath) ==
    IF oldPath = <<>> \/ newPath = <<>> THEN Fail(disk, 400)
    ELSE LET fullOldPath == getSafePath(oldPath)
             fullNewPath == getSafePath(newPath)
         IN  IF fullOldPath = Thrown \/ fullNewPath = Thrown THEN Fail(disk, 500)
             ELSE IF pathExists(disk, fullNewPath) THEN Fail(disk, 400)
             ELSE LET made == ensureDir(disk, dirname(fullNewPath))
                  IN  IF ~pathExists(made, fullOldPath) THEN Fail(made, 500)
                      ELSE Result([made EXCEPT
                                     !.files[fullNewPath] = disk.files[fullOldPath],
                                     !.files[fullOldPath] = NoText],
                                  200, NoText, NoSum)

Disk == [files |-> fsFiles, dirs |-> fsDirs, trash |-> fsTrash]

Request(op, token, path, newPath, content, patch, checksum) ==
    [op |-> op, token |-> token, path |-> path, newPath |-> newPath,
     content |-> content, patch |-> patch, checksum |-> checksum]

\* a patch of two hunks: insert "b" at the start, then delete "aa"
TwoHunks ==
    << [start |-> 0, before |-> <<>>, del |-> <<>>, ins |-> <<"b">>, after |-> <<>>],
       [start |-> 1, before |-> <<>>, del |-> <<"a", "a">>, ins |-> <<>>, after |-> <<>>] >>

\* the requests clients send; those of PATCH carry the difference between two
\* texts and the checksum of the first, or the two hunks with a checksum
Requests ==
    {Request(op, token, path, <<>>, NoText, NoText, NoSum) :
        op \in {"get", "post", "delete"}, token \in Tokens, path \in ReqPaths}
    \cup {Request("put", token, path, <<>>, content, NoText, NoSum) :
            token \in Tokens, path \in ReqPaths, content \in FSTexts \cup {NoText}}
    \cup {Request("patch", token, path, <<>>, NoText,
                  patch_toText(patch_make(from, <<"a", "b">>)), md5(from)) :
            token \in Tokens, path \in ReqPaths, from \in {<<"a">>, <<"b">>}}
    \cup {Request("patch", token, path, <<>>, NoText, patch_toText(TwoHunks), md5(<<"a">>)) :
            token \in Tokens, path \in ReqPaths}
    \cup {Request(op, token, oldPath, newPath, NoText, NoText, NoSum) :
            op \in {"rename", "move"}, token \in Tokens,
            oldPath \in ReqPaths \ {<<"/", "f">>},
            newPath \in ReqPaths \ {<<"/", "f">>}}

FSInit ==
    /\ SyncInit
    /\ GCIdleInit
    /\ fsDirs \in {{}, {SubDir}}
    /\ fsFiles = [abs \in AbsFiles |->
                    IF abs = Resolved(<<"g">>) THEN NoText
                    ELSE IF abs = Resolved(<<"s", "/", "f">>)
                    THEN (IF SubDir \in fsDirs THEN <<"b">> ELSE NoText)
                    ELSE <<"a">>]
    /\ fsTrash = {}
    /\ fsNow = 0
    /\ fsPassword \in BOOLEAN
    /\ fsReq = Absent
    /\ fsLast = Absent
    /\ fsBudget = 0

\* a request arrives at /api/files
FSRequest(req) ==
    /\ fsReq = Absent
    /\ fsBudget < MaxFSEvents
    /\ fsBudget' = fsBudget + 1
    /\ fsReq' = req
    /\ UNCHANGED <<fsFiles, fsDirs, fsTrash, fsNow, fsPassword, fsLast, syncVars, gcVars>>

\* app.use('/api/files', authMiddleware, fileRoutes): the request is answered
\* 401 by the middleware or handed to its handler, whose outcome is result
Serve(op, result) ==
    /\ fsReq # Absent
    /\ fsReq.op = op
    /\ LET out == IF authMiddleware(fsPassword, fsReq.token) = "next"
                  THEN result ELSE Fail(Disk, 401)
       IN  /\ fsFiles' = out.disk.files
           /\ fsDirs' = out.disk.dirs
           /\ fsTrash' = out.disk.trash
           /\ fsLast' = [op |-> op, status |-> out.status, content |-> out.content,
                         checksum |-> out.checksum]
    /\ fsReq' = Absent
    /\ UNCHANGED <<fsNow, fsPassword, fsBudget, syncVars, gcVars>>

FSGet == Serve("get", route_get(Disk, fsReq.path))

FSCreate == Serve("post", route_post(Disk, fsReq.path))

FSPut == Serve("put", route_put(Disk, fsReq.path, fsReq.content))

FSPatch == Serve("patch", route_patch(Disk, fsReq.path, fsReq.patch, fsReq.checksum))

FSDelete == Serve("delete", route_delete(Disk, fsReq.path, fsNow))

FSRename == Serve("rename", route_rename(Disk, fsReq.path, fsReq.newPath))

FSMove == Serve("move", route_move(Disk, fsReq.path, fsReq.newPath))

\* a millisecond passes
FSTick ==
    /\ fsBudget < MaxFSEvents
    /\ fsBudget' = fsBudget + 1
    /\ fsNow' = fsNow + 1
    /\ UNCHANGED <<fsFiles, fsDirs, fsTrash, fsPassword, fsReq, fsLast, syncVars, gcVars>>

NextFS ==
    \/ \E req \in Requests : FSRequest(req)
    \/ FSGet
    \/ FSCreate
    \/ FSPut
    \/ FSPatch
    \/ FSDelete
    \/ FSRename
    \/ FSMove
    \/ FSTick

SpecFS == FSInit /\ [][NextFS]_vars

\* ================================================ properties of the file API
\* a step in which the pending request is answered
Answered == fsReq # Absent /\ fsReq' = Absent

Authorised == authMiddleware(fsPassword, fsReq.token) = "next"

\* the request names a path that does not resolve strictly inside the root
Escapes(req) ==
    \/ req.path # <<>> /\ ~InsideRoot(Resolved(req.path))
    \/ /\ req.op \in {"rename", "move"}
       /\ req.newPath # <<>>
       /\ ~InsideRoot(Resolved(req.newPath))

\* the outcome of the handler of req on disk
Handled(disk, now, req) ==
    CASE req.op = "get" -> route_get(disk, req.path)
      [] req.op = "post" -> route_post(disk, req.path)
      [] req.op = "put" -> route_put(disk, req.path, req.content)
      [] req.op = "patch" -> route_patch(disk, req.path, req.patch, req.checksum)
      [] req.op = "delete" -> route_delete(disk, req.path, now)
      [] req.op = "rename" -> route_rename(disk, req.path, req.newPath)
      [] OTHER -> route_move(disk, req.path, req.newPath)

\* C13: a request with a path that does not resolve strictly inside the data
\* root is rejected without any access to the disk, and no request changes or
\* returns a file outside the root.
C13_PathSandbox ==
    [][Answered
          => (/\ \A abs \in AbsFiles :
                    ~InsideRoot(abs) => fsFiles'[abs] = fsFiles[abs]
              /\ Escapes(fsReq)
                    => (/\ fsLast'.status # 200
                        /\ Disk' = Disk
                        /\ fsLast'.content = NoText))
      ]_vars

\* C14: DELETE of a path that does not exist answers 404 and changes nothing;
\* DELETE of an existing path takes it out of the tree and puts its content
\* into the recovery area under stamp_base; no item of the recovery area is
\* ever lost or replaced.
C14_SoftDelete ==
    [][(/\ Answered
        /\ Authorised
        /\ fsReq.op = "delete"
        /\ fsReq.path # <<>>
        /\ getSafePath(fsReq.path) # Thrown)
          => LET fullPath == getSafePath(fsReq.path)
             IN  /\ fsTrash \subseteq fsTrash'
                 /\ fsFiles[fullPath] = NoText
                       => (fsLast'.status = 404 /\ Disk' = Disk)
                 /\ fsFiles[fullPath] # NoText
                       => (/\ fsFiles' = [fsFiles EXCEPT ![fullPath] = NoText]
                           /\ [stamp |-> fsNow, base |-> basename(fullPath),
                               content |-> fsFiles[fullPath]] \in fsTrash')
      ]_vars

\* C15 as stated: rename and move fail when newPath exists, leaving both
\* documents as they are; otherwise the content of oldPath is at newPath and
\* oldPath is gone.
C15_AlwaysRelocates ==
    [][(/\ Answered
        /\ Authorised
        /\ fsReq.op \in {"rename", "move"}
        /\ fsReq.path # <<>> /\ fsReq.newPath # <<>>
        /\ getSafePath(fsReq.path) # Thrown
        /\ getSafePath(fsReq.newPath) # Thrown)
          => LET fullOldPath == getSafePath(fsReq.path)
                 fullNewPath == getSafePath(fsReq.newPath)
             IN  /\ fsFiles[fullNewPath] # NoText
                       => (fsLast'.status = 400 /\ fsFiles' = fsFiles)
                 /\ (fsFiles[fullNewPath] = NoText /\ fsFiles[fullOldPath] # NoText)
                       => (/\ fsLast'.status = 200
                           /\ fsFiles'[fullNewPath] = fsFiles[fullOldPath]
                           /\ fsFiles'[fullOldPath] = NoText)
      ]_vars

\* C15 amended: the same, except that rename to a newPath whose directory
\* does not exist fails with 500 and changes nothing (move makes the
\* directory first).
C15_RelocatesIfDirectoryExists ==
    [][(/\ Answered
        /\ Authorised
        /\ fsReq.op \in {"rename", "move"}
        /\ fsReq.path # <<>> /\ fsReq.newPath # <<>>
        /\ getSafePath(fsReq.path) # Thrown
        /\ getSafePath(fsReq.newPath) # Thrown)
          => LET fullOldPath == getSafePath(fsReq.path)
                 fullNewPath == getSafePath(fsReq.newPath)
                 hasDir == DirExists(Disk, dirname(fullNewPath))
             IN  /\ fsFiles[fullNewPath] # NoText
                       => (fsLast'.status = 400 /\ Disk' = Disk)
                 /\ (/\ fsFiles[fullNewPath] = NoText
                     /\ fsFiles[fullOldPath] # NoText
                     /\ (fsReq.op = "move" \/ hasDir))
                       => (/\ fsLast'.status = 200
                           /\ fsFiles' = [fsFiles EXCEPT
                                            ![fullNewPath] = fsFiles[fullOldPath],
                                            ![fullOldPath] = NoText])
                 /\ (/\ fsFiles[fullNewPath] = NoText
                     /\ fsFiles[fullOldPath] # NoText
                     /\ fsReq.op = "rename"
                     /\ ~hasDir)
                       => (fsLast'.status = 500 /\ Disk' = Disk)
      ]_vars

\* a move has put the text of /d/f into the directory /d/s
C15_Witness ==
    /\ fsReq = Absent
    /\ fsLast # Absent
    /\ fsLast.op = "move"
    /\ fsLast.status = 200
    /\ SubDir \in fsDirs
    /\ fsFiles[Resolved(<<"s", "/", "f">>)] = <<"a">>
    /\ fsFiles[Resolved(<<"f">>)] = NoText

\* C16 as stated: PUT to a path accepted by the path check succeeds whatever
\* the file holds, stores the sent content and answers its fingerprint.
C16_PutAlwaysSucceeds ==
    [][(/\ Answered
        /\ Authorised
        /\ fsReq.op = "put"
        /\ fsReq.path # <<>>
        /\ getSafePath(fsReq.path) # Thrown)
          => (/\ fsLast'.status = 200
              /\ fsFiles'[getSafePath(fsReq.path)] = OrEmpty(fsReq.content)
              /\ fsLast'.checksum = md5(OrEmpty(fsReq.content)))
      ]_vars

\* C16 amended: the same for the paths whose directory exists; no answer of
\* PUT depends on what the file holds.
C16_PutUnconditional ==
    [][(/\ Answered
        /\ Authorised
        /\ fsReq.op = "put"
        /\ fsReq.path # <<>>
        /\ getSafePath(fsReq.path) # Thrown)
          => LET fullPath == getSafePath(fsReq.path)
             IN  IF DirExists(Disk, dirname(fullPath))
                 THEN /\ fsLast'.status = 200
                      /\ fsFiles' = [fsFiles EXCEPT ![fullPath] = OrEmpty(fsReq.content)]
                      /\ fsLast'.checksum = md5(OrEmpty(fsReq.content))
                 ELSE fsLast'.status = 500 /\ Disk' = Disk
      ]_vars

\* a PUT has replaced the text of /d/f by another one and created /d/g
C16_Witness ==
    /\ fsReq = Absent
    /\ fsLast # Absent
    /\ fsLast.op = "put"
    /\ fsLast.status = 200
    /\ fsLast.checksum = md5(<<"b">>)
    /\ fsFiles[Resolved(<<"f">>)] = <<"b">>
    /\ fsFiles[Resolved(<<"g">>)] # NoText

C30_FailedPatchNotPersisted ==
    [][(/\ Answered
        /\ Authorised
        /\ fsReq.op = "patch"
        /\ fsReq.path # <<>>
        /\ getSafePath(fsReq.path) # Thrown
        /\ fsFiles[getSafePath(fsReq.path)] # NoText
        /\ fsReq.checksum = md5(fsFiles[getSafePath(fsReq.path)])
        /\ LET applied == patch_apply(patch_fromText(fsReq.patch),
                                      fsFiles[getSafePath(fsReq.path)])
           IN  \E i \in 1..Len(applied.results) : ~applied.results[i])
          => (/\ fsLast'.status = 422
              /\ fsLast'.content = fsFiles[getSafePath(fsReq.path)]
              /\ Disk' = Disk)
      ]_vars

\* a PATCH of /d/f with the right checksum was answered 422 with the text of
\* the file, of which one hunk applied and one did not; the file is as it was
C30_Witness ==
    /\ fsReq = Absent
    /\ fsLast # Absent
    /\ fsLast.op = "patch"
    /\ fsLast.status = 422
    /\ fsLast.content = <<"a">>
    /\ fsFiles[Resolved(<<"f">>)] = <<"a">>
    /\ patch_apply(TwoHunks, <<"a">>).results = <<TRUE, FALSE>>
    /\ patch_apply(TwoHunks, <<"a">>).newText = <<"b", "a">>

\* ------------------------------------------- properties of the draft store
\* saveDraft(p, content) has run in this step: at the end of the 500ms
\* callback, or inside forceSync
SavedDraft(p, content) ==
    \/ Persisted /\ saving.path = p /\ saving.content = content
    \/ \E s \in Slots : ForceSaved(s) /\ filePath = p /\ editorDoc = content

\* C35: saveDraft(p, content) leaves a Draft under p with that content and
\* dirty set, whose shadow pair is the one the Draft under p had before, or
\* absent when there was none; the Draft of every other path is as it was.
C35_SaveDraftKeepsShadow ==
    [][\A p \in Paths : \A content \in Texts :
         SavedDraft(p, content)
            => (/\ drafts'[p] # Absent
                /\ drafts'[p].content = content
                /\ drafts'[p].dirty
                /\ drafts'[p].shadowContent =
                      (IF drafts[p] = Absent THEN NoText ELSE drafts[p].shadowContent)
                /\ drafts'[p].shadowChecksum =
                      (IF drafts[p] = Absent THEN NoSum ELSE drafts[p].shadowChecksum)
                /\ \A q \in Paths \ {p} : drafts'[q] = drafts[q])
      ]_vars

\* saveDraft has stored an edit over a Draft that held a shadow pair: the
\* content differs from the shadow text, the pair is still that of the load
C35_Witness ==
    /\ saving = Absent
    /\ \E p \in Paths :
          /\ drafts[p] # Absent
          /\ drafts[p].dirty
          /\ HasShadowPair(drafts[p])
          /\ drafts[p].shadowChecksum = md5(drafts[p].shadowContent)
          /\ drafts[p].content # drafts[p].shadowContent
          /\ lastEdit[p] = drafts[p].content

\* C36: moveDraft(oldPath, newPath) on a store with a Draft under oldPath
\* gives a store with that Draft, field for field, under newPath and none
\* under oldPath; on a store with no Draft under oldPath it gives the store
\* back.  Stated of every store the client reaches and every pair of
\* different paths, which is how App.handleMoveFile calls it.
C36_MoveDraftMovesWhole ==
    \A oldPath \in Paths : \A newPath \in Paths \ {oldPath} :
       LET moved == moveDraft(drafts, oldPath, newPath)
       IN  IF drafts[oldPath] = Absent
           THEN moved = drafts
           ELSE /\ moved[newPath] = drafts[oldPath]
                /\ moved[oldPath] = Absent
                /\ \A r \in Paths \ {oldPath, newPath} : moved[r] = drafts[r]

\* the Draft under p2 holds the edit the user made to p1 and p2 was never
\* edited: handleMoveFile has taken the dirty Draft of p1 to p2
C36_Witness ==
    /\ drafts["p1"] = Absent
    /\ drafts["p2"] # Absent
    /\ drafts["p2"].dirty
    /\ lastEdit["p1"] # NoText
    /\ lastEdit["p2"] = NoText
    /\ drafts["p2"].content = lastEdit["p1"]

\* ------------------------------------------- properties of switching files
\* C37: what a load puts in the editor belongs to the selected document: a
\* loadContent that finishes for a path other than the selected one leaves
\* the editor's content as it is, so that it is not saved or pushed under
\* the selected path afterwards.
C37_LoadBelongsToSelected ==
    [][\A l \in loads :
         (Loaded(l) /\ l.path # filePath) => editorDoc' = editorDoc
      ]_vars

\* ---------------------------------------- properties of deleted documents
\* the server has handled the full overwrite that syncFile sent after its
\* PATCH was answered 404
FallbackPutHandled(s) ==
    /\ OnlySlot(s)
    /\ syncs[s].pc = "putReq"
    /\ syncs[s].fallback
    /\ syncs[s].failure = 404
    /\ syncs'[s].pc = "putResp"
    /\ syncs'[s].resp # NetworkError

\* C38: the sync engine does not re-create a soft-deleted document: when the
\* PATCH of a Draft stored under the deleted path has been answered 404, the
\* push that follows leaves the path without a document.
C38_DeletedStaysDeleted ==
    [][\A s \in Slots :
         (FallbackPutHandled(s) /\ files[syncs[s].path] = NoText)
            => files'[syncs[s].path] = NoText
      ]_vars

====
